---- MODULE Spec2Model ----
(***************************************************************************)
(* Document-harvesting pipeline of the Canarias PYME scraper:              *)
(*   - FileManager (utils/file_manager.py): resumable download manager     *)
(*   - CanariasPYMEScraper (main.py): orchestrator runs and the ledger     *)
(*   - BaseScraper._make_request under with_retry: the fetch engine        *)
(*                                                                         *)
(* Python strings are sequences of one-character strings, so that slicing, *)
(* substring tests and regular-expression substitutions are computed the   *)
(* way the code computes them.  None is the one-element tuple NULL.        *)
(***************************************************************************)
EXTENDS Integers, Sequences, FiniteSets, TLC

NULL == <<"None">>

----------------------------------------------------------------------------
(* str primitives *)

\* F(v) with v evaluated once: an operator evaluates its arguments by name, each
\* time it uses them, and a string is used once per character
Let(v, F(_)) == CHOOSE r \in { F(x) : x \in {v} } : TRUE

Min(a, b) == IF a < b THEN a ELSE b

\* s[:n]
Prefix(s0, n) == Let(s0, LAMBDA s : SubSeq(s, 1, Min(n, Len(s))))

\* sub in s
Contains(s0, sub0) ==
    \E s \in {s0}, sub \in {sub0} :
        \E i \in 0..(Len(s) - Len(sub)) : SubSeq(s, i + 1, i + Len(sub)) = sub

\* s.startswith(p)
StartsWith(s0, p0) ==
    \E s \in {s0}, p \in {p0} : Len(s) >= Len(p) /\ SubSeq(s, 1, Len(p)) = p

UpperAlpha == <<"A","B","C","D","E","F","G","H","I","J","K","L","M","N","O","P","Q","R","S","T","U","V","W","X","Y","Z">>
LowerAlpha == <<"a","b","c","d","e","f","g","h","i","j","k","l","m","n","o","p","q","r","s","t","u","v","w","x","y","z">>
Digits == <<"0","1","2","3","4","5","6","7","8","9">>
HexDigits == <<"0","1","2","3","4","5","6","7","8","9","a","b","c","d","e","f">>

Range(s0) == Let(s0, LAMBDA s : {s[i] : i \in DOMAIN s})

Letters == Range(LowerAlpha) \cup Range(UpperAlpha)

LowerChar(c) ==
    IF c \in Range(UpperAlpha)
      THEN LowerAlpha[CHOOSE i \in DOMAIN UpperAlpha : UpperAlpha[i] = c]
      ELSE c

\* s.lower()
Lower(s0) == Let(s0, LAMBDA s : [i \in DOMAIN s |-> LowerChar(s[i])])

IsSpace(c) == c = " "

\* s.strip()
Strip(s0) ==
    Let(s0, LAMBDA s :
        IF \A i \in DOMAIN s : IsSpace(s[i]) THEN <<>>
        ELSE LET first == CHOOSE i \in DOMAIN s :
                            ~IsSpace(s[i]) /\ \A j \in 1..(i - 1) : IsSpace(s[j])
                 last  == CHOOSE i \in DOMAIN s :
                            ~IsSpace(s[i]) /\ \A j \in (i + 1)..Len(s) : IsSpace(s[j])
             IN  SubSeq(s, first, last))

\* s.rfind(c) + 1  (0 when c does not occur)
RFind(s0, c) ==
    Let(s0, LAMBDA s :
        IF \E i \in DOMAIN s : s[i] = c
          THEN CHOOSE i \in DOMAIN s : s[i] = c /\ \A j \in (i + 1)..Len(s) : s[j] # c
          ELSE 0)

\* index of the first character of s that is in cs, Len(s) + 1 when there is none
FindAny(s0, cs) ==
    Let(s0, LAMBDA s :
        IF \E i \in DOMAIN s : s[i] \in cs
          THEN CHOOSE i \in DOMAIN s : s[i] \in cs /\ \A j \in 1..(i - 1) : s[j] \notin cs
          ELSE Len(s) + 1)

\* s.split(c)[0]
SplitFirst(s0, c) == Let(s0, LAMBDA s : SubSeq(s, 1, FindAny(s, {c}) - 1))

\* s[n:], n counted from 0
From(s0, n) == Let(s0, LAMBDA s : SubSeq(s, n + 1, Len(s)))

----------------------------------------------------------------------------
(* urllib.parse, os.path *)

\* urlparse(url) for scheme://netloc/path?query#fragment references
\* (no ;params in the URLs of the model)
SplitScheme(url0) ==
    Let(url0, LAMBDA url :
        LET colon == FindAny(url, {":"})
        IN  IF colon <= Len(url) /\ colon > 1
               /\ \A i \in 1..(colon - 1) :
                     url[i] \in Letters \cup Range(Digits) \cup {"+", "-", "."}
              THEN <<Lower(SubSeq(url, 1, colon - 1)), From(url, colon)>>
              ELSE << <<>>, url >>)

SplitNetloc(rest0) ==
    Let(rest0, LAMBDA rest :
        IF StartsWith(rest, <<"/","/">>)
          THEN LET netEnd == FindAny(From(rest, 2), {"/", "?", "#"})
               IN  <<SubSeq(rest, 3, netEnd + 1), From(rest, netEnd + 1)>>
          ELSE << <<>>, rest >>)

SplitAt(s0, c) ==
    Let(s0, LAMBDA s : <<SubSeq(s, 1, FindAny(s, {c}) - 1), From(s, FindAny(s, {c}))>>)

urlparse(url0) ==
    Let(SplitScheme(url0), LAMBDA sch :
    Let(SplitNetloc(sch[2]), LAMBDA net :
    Let(SplitAt(net[2], "#"), LAMBDA frag :
    Let(SplitAt(frag[1], "?"), LAMBDA qry :
        [scheme |-> sch[1], netloc |-> net[1], path |-> qry[1],
         query |-> qry[2], fragment |-> frag[2]]))))

\* unquote(s): percent-decoding, for the escapes %2E / %2e (".") and %20 (" ")
RECURSIVE unquote(_)
unquote(s0) ==
    Let(s0, LAMBDA s :
        IF s = <<>> THEN <<>>
        ELSE IF Len(s) >= 3 /\ SubSeq(s, 1, 3) \in {<<"%","2","E">>, <<"%","2","e">>}
          THEN <<".">> \o unquote(From(s, 3))
        ELSE IF Len(s) >= 3 /\ SubSeq(s, 1, 3) = <<"%","2","0">>
          THEN <<" ">> \o unquote(From(s, 3))
        ELSE <<s[1]>> \o unquote(From(s, 1)))

\* os.path.splitext(p)[1]
splitext(p0) ==
    Let(p0, LAMBDA p :
        LET sepIndex == RFind(p, "/")
            dotIndex == RFind(p, ".")
        IN  IF dotIndex > sepIndex
               /\ \E k \in (sepIndex + 1)..(dotIndex - 1) : p[k] # "."
              THEN SubSeq(p, dotIndex, Len(p))
              ELSE <<>>)

\* the characters quote() leaves alone (safe = '/')
Unreserved == Letters \cup Range(Digits) \cup {"_", ".", "-", "~", "/"}

QuoteTable ==
    { <<"?", <<"%","3","F">>>>, <<"=", <<"%","3","D">>>>, <<"#", <<"%","2","3">>>>, <<" ", <<"%","2","0">>>>,
      <<"%", <<"%","2","5">>>>, <<":", <<"%","3","A">>>>, <<"&", <<"%","2","6">>>>, <<";", <<"%","3","B">>>> }

QuoteChar(c) ==
    IF c \in Unreserved THEN <<c>> ELSE (CHOOSE e \in QuoteTable : e[1] = c)[2]

\* quote(s)
RECURSIVE quote(_)
quote(s0) ==
    Let(s0, LAMBDA s :
        IF s = <<>> THEN <<>> ELSE QuoteChar(s[1]) \o quote(From(s, 1)))

\* urljoin(base, ref) for a reference that is an absolute path
urljoin(base, ref) ==
    Let(urlparse(base), LAMBDA parsed : parsed.scheme \o <<":","/","/">> \o parsed.netloc \o ref)

----------------------------------------------------------------------------
(* BaseScraper: pure helpers *)

\* s.rstrip('/')
RStripSlash(s0) ==
    Let(s0, LAMBDA s :
        IF \A i \in DOMAIN s : s[i] = "/" THEN <<>>
        ELSE SubSeq(s, 1, CHOOSE i \in DOMAIN s :
                             s[i] # "/" /\ \A j \in (i + 1)..Len(s) : s[j] = "/"))

\* path.replace('//', '/'): non-overlapping occurrences, left to right
RECURSIVE ReplaceSlashes(_)
ReplaceSlashes(s0) ==
    Let(s0, LAMBDA s :
        IF Len(s) < 2 THEN s
        ELSE IF s[1] = "/" /\ s[2] = "/" THEN <<"/">> \o ReplaceSlashes(From(s, 2))
        ELSE <<s[1]>> \o ReplaceSlashes(From(s, 1)))

\* while '//' in path: path = path.replace('//', '/')
RECURSIVE CollapseSlashes(_)
CollapseSlashes(path0) ==
    Let(path0, LAMBDA path :
        IF Contains(path, <<"/","/">>) THEN CollapseSlashes(ReplaceSlashes(path)) ELSE path)

\* BaseScraper._normalize_url
_normalize_url(url0) ==
    IF url0 = <<>> THEN url0
    ELSE
    Let(RStripSlash(Strip(url0)), LAMBDA stripped :
    Let(IF StartsWith(stripped, <<"h","t","t","p",":","/","/">>) \/ StartsWith(stripped, <<"h","t","t","p","s",":","/","/">>)
          THEN stripped ELSE <<"h","t","t","p","s",":","/","/">> \o stripped, LAMBDA url :
    Let(urlparse(url), LAMBDA parsed :
        parsed.scheme \o <<":","/","/">> \o parsed.netloc \o CollapseSlashes(parsed.path)
          \o (IF parsed.query # <<>> THEN <<"?">> \o parsed.query ELSE <<>>)
          \o (IF parsed.fragment # <<>> THEN <<"#">> \o parsed.fragment ELSE <<>>))))

\* urllib.robotparser, as _check_robots_txt and _can_fetch use it.  A parser is
\* [none, disallow_all, allow_all, last_checked, entries, default_entry]; none is
\* TRUE for the None that _check_robots_txt caches when read() raises, and
\* default_entry is a sequence of at most one entry.
RuleLine(path, allowance) == [path |-> path, allowance |-> allowance]

Entry(useragents, rulelines) == [useragents |-> useragents, rulelines |-> rulelines]

NoParser ==
    [none |-> TRUE, disallow_all |-> FALSE, allow_all |-> FALSE, last_checked |-> FALSE,
     entries |-> <<>>, default_entry |-> <<>>]

\* RobotFileParser.read() that does not raise: answer is the answer of the server
read(answer) ==
    IF answer.kind = "http_error"
      THEN [none |-> FALSE,
            disallow_all |-> answer.status \in {401, 403},
            allow_all |-> answer.status \notin {401, 403}
                          /\ answer.status >= 400 /\ answer.status < 500,
            last_checked |-> FALSE, entries |-> <<>>, default_entry |-> <<>>]
      ELSE [none |-> FALSE, disallow_all |-> FALSE, allow_all |-> FALSE,
            last_checked |-> TRUE,
            entries |-> answer.entries, default_entry |-> answer.default_entry]

\* Entry.applies_to
EntryAppliesTo(entry, useragent) ==
    \E token \in {Lower(SplitFirst(useragent, "/"))} :
        \E agent \in entry.useragents : agent = <<"*">> \/ Contains(token, Lower(agent))

\* Entry.allowance: the first rule line that applies decides
Allowance(entry, filename) ==
    LET applies(i) == entry.rulelines[i].path = <<"*">>
                      \/ StartsWith(filename, entry.rulelines[i].path)
    IN  IF \E i \in DOMAIN entry.rulelines : applies(i)
          THEN entry.rulelines[CHOOSE i \in DOMAIN entry.rulelines :
                                  applies(i) /\ \A j \in 1..(i - 1) : ~applies(j)].allowance
          ELSE TRUE

\* RobotFileParser.can_fetch
can_fetch(rp, useragent, url) ==
    IF rp.disallow_all THEN FALSE
    ELSE IF rp.allow_all THEN TRUE
    ELSE IF ~rp.last_checked THEN FALSE
    ELSE
    Let(urlparse(unquote(url)), LAMBDA parsed_url :
    Let(quote(parsed_url.path
              \o (IF parsed_url.query # <<>> THEN <<"?">> \o parsed_url.query ELSE <<>>)
              \o (IF parsed_url.fragment # <<>>
                    THEN <<"#">> \o parsed_url.fragment ELSE <<>>)), LAMBDA quoted :
    Let(IF quoted = <<>> THEN <<"/">> ELSE quoted, LAMBDA filename :
        IF \E i \in DOMAIN rp.entries : EntryAppliesTo(rp.entries[i], useragent)
          THEN Allowance(rp.entries[CHOOSE i \in DOMAIN rp.entries :
                            /\ EntryAppliesTo(rp.entries[i], useragent)
                            /\ \A j \in 1..(i - 1) :
                                  ~EntryAppliesTo(rp.entries[j], useragent)],
                         filename)
        ELSE IF rp.default_entry # <<>> THEN Allowance(rp.default_entry[1], filename)
        ELSE TRUE)))

\* with_retry(max_retries=3, delay=1, backoff=2) on _make_request
max_retries == 3
delay == 1
backoff == 2

\* a wait that does not grow with the attempts
wait_time_constant(attempt) == delay

\* with_retry: the wait after a failed attempt (attempt counted from 0)
wait_time(attempt) == delay * backoff ^ attempt

\* DEFAULT_CONFIG["DELAY_BETWEEN_REQUESTS"], the delay the configuration sets
DELAY_BETWEEN_REQUESTS == 2
\* getattr(self.scraping_config, 'REQUEST_DELAY', 1): no configuration sets it
REQUEST_DELAY == 1
\* getattr(self.scraping_config, 'RATE_LIMIT_DELAY', 5): no configuration sets it
RATE_LIMIT_DELAY == 5

----------------------------------------------------------------------------
(* FileManager: pure helpers *)

\* FileManager.MIME_EXTENSIONS
MIME_EXTENSIONS ==
    { <<<<"a","p","p","l","i","c","a","t","i","o","n","/","p","d","f">>, <<".","p","d","f">>>>,
      <<<<"a","p","p","l","i","c","a","t","i","o","n","/","m","s","w","o","r","d">>, <<".","d","o","c">>>>,
      <<<<"a","p","p","l","i","c","a","t","i","o","n","/","v","n","d",".","o","p","e","n","x","m","l","f","o","r","m","a","t","s","-","o","f","f","i","c","e","d","o","c","u","m","e","n","t",".","w","o","r","d","p","r","o","c","e","s","s","i","n","g","m","l",".","d","o","c","u","m","e","n","t">>, <<".","d","o","c","x">>>>,
      <<<<"a","p","p","l","i","c","a","t","i","o","n","/","v","n","d",".","m","s","-","e","x","c","e","l">>, <<".","x","l","s">>>>,
      <<<<"a","p","p","l","i","c","a","t","i","o","n","/","v","n","d",".","o","p","e","n","x","m","l","f","o","r","m","a","t","s","-","o","f","f","i","c","e","d","o","c","u","m","e","n","t",".","s","p","r","e","a","d","s","h","e","e","t","m","l",".","s","h","e","e","t">>, <<".","x","l","s","x">>>>,
      <<<<"t","e","x","t","/","p","l","a","i","n">>, <<".","t","x","t">>>>,
      <<<<"a","p","p","l","i","c","a","t","i","o","n","/","r","t","f">>, <<".","r","t","f">>>>,
      <<<<"t","e","x","t","/","c","s","v">>, <<".","c","s","v">>>> }

\* dict.get(key) on a set of <<key, value>> pairs
DictGet(d, key0) ==
    Let(key0, LAMBDA key :
        IF \E p \in d : p[1] = key THEN (CHOOSE p \in d : p[1] = key)[2] ELSE NULL)

\* mimetypes.guess_extension, on the types MIME_EXTENSIONS does not map
MimetypesTable ==
    { <<<<"t","e","x","t","/","h","t","m","l">>, <<".","h","t","m","l">>>>,
      <<<<"a","p","p","l","i","c","a","t","i","o","n","/","z","i","p">>, <<".","z","i","p">>>>,
      <<<<"a","p","p","l","i","c","a","t","i","o","n","/","v","n","d",".","o","p","e","n","x","m","l","f","o","r","m","a","t","s","-","o","f","f","i","c","e","d","o","c","u","m","e","n","t",".","p","r","e","s","e","n","t","a","t","i","o","n","m","l",".","p","r","e","s","e","n","t","a","t","i","o","n">>, <<".","p","p","t","x">>>> }

guess_extension(type) ==
    Let(DictGet(MIME_EXTENSIONS, type), LAMBDA ext :
        IF ext # NULL THEN ext ELSE DictGet(MimetypesTable, type))

\* get_file_extension, step 1: the extension of the URL's path
ExtFromUrlPath(url) ==
    Let(splitext(unquote(urlparse(url).path)), LAMBDA ext :
        IF ext # <<>> /\ Len(ext) <= 6 THEN Lower(ext) ELSE NULL)

\* get_file_extension, step 2: the content type the caller passed
ExtFromContentType(content_type0) ==
    Let(content_type0, LAMBDA content_type :
        IF content_type = NULL \/ content_type = <<>> THEN NULL
        ELSE DictGet(MIME_EXTENSIONS, Strip(SplitFirst(content_type, ";"))))

\* get_file_extension, step 3: head is the content-type header of a 200 answer to
\* the HEAD request, or NULL when the request raises or answers another status
ExtFromHead(head) ==
    IF head = NULL THEN NULL
    ELSE Let(DictGet(MIME_EXTENSIONS, Strip(SplitFirst(head, ";"))), LAMBDA ext :
             IF ext # NULL THEN ext ELSE guess_extension(SplitFirst(head, ";")))

\* get_file_extension, step 4: terms in the URL
ExtFromUrlText(url) ==
    Let(Lower(url), LAMBDA lower :
        IF Contains(lower, <<"p","d","f">>) THEN <<".","p","d","f">>
        ELSE IF Contains(lower, <<"d","o","c">>) \/ Contains(lower, <<"w","o","r","d">>) THEN <<".","d","o","c">>
        ELSE IF Contains(lower, <<"x","l","s">>) \/ Contains(lower, <<"e","x","c","e","l">>) THEN <<".","x","l","s">>
        ELSE <<".","u","n","k","n","o","w","n">>)

\* TRUE when get_file_extension(url, content_type) issues its HEAD request
HeadRequested(url, content_type) ==
    ExtFromUrlPath(url) = NULL /\ ExtFromContentType(content_type) = NULL

get_file_extension(url, content_type, head) ==
    Let(ExtFromUrlPath(url), LAMBDA from_path :
        IF from_path # NULL THEN from_path
        ELSE Let(ExtFromContentType(content_type), LAMBDA from_type :
            IF from_type # NULL THEN from_type
            ELSE Let(ExtFromHead(head), LAMBDA from_head :
                IF from_head # NULL THEN from_head ELSE ExtFromUrlText(url))))

valid_types ==
    { <<"a","p","p","l","i","c","a","t","i","o","n","/","p","d","f">>, <<"a","p","p","l","i","c","a","t","i","o","n","/","m","s","w","o","r","d">>,
      <<"a","p","p","l","i","c","a","t","i","o","n","/","v","n","d",".","o","p","e","n","x","m","l","f","o","r","m","a","t","s","-","o","f","f","i","c","e","d","o","c","u","m","e","n","t">>,
      <<"a","p","p","l","i","c","a","t","i","o","n","/","v","n","d",".","m","s","-","e","x","c","e","l">>, <<"t","e","x","t","/","p","l","a","i","n">>, <<"a","p","p","l","i","c","a","t","i","o","n","/","r","t","f">>, <<"t","e","x","t","/","c","s","v">> }

_is_valid_content_type(content_type0) ==
    \E content_type \in {content_type0} :
        \E valid_type \in valid_types : Contains(content_type, valid_type)

\* \w of re (ASCII letters, digits, underscore) and \s
IsWordChar(c) == c \in Letters \cup Range(Digits) \cup {"_"}

\* re.sub(r'[^\w\s-]', '', s)
RECURSIVE DropSpecial(_)
DropSpecial(s0) ==
    Let(s0, LAMBDA s :
        IF s = <<>> THEN <<>>
        ELSE IF IsWordChar(s[1]) \/ IsSpace(s[1]) \/ s[1] = "-"
          THEN <<s[1]>> \o DropSpecial(Tail(s))
        ELSE DropSpecial(Tail(s)))

\* re.sub(r'[-\s]+', '_', s)
RECURSIVE JoinRuns(_)
JoinRuns(s0) ==
    Let(s0, LAMBDA s :
        IF s = <<>> THEN <<>>
        ELSE IF IsSpace(s[1]) \/ s[1] = "-"
          THEN <<"_">> \o JoinRuns(From(s, FindAny(s, Range(s) \ {" ", "-"}) - 1))
        ELSE <<s[1]>> \o JoinRuns(Tail(s)))

_generate_filename(doc_hash, title, file_ext) ==
    Let(JoinRuns(Strip(DropSpecial(title))), LAMBDA clean_title :
        IF title # <<>> /\ clean_title # <<>> /\ Len(clean_title) > 3
          THEN Prefix(clean_title, 50) \o <<"_">> \o Prefix(doc_hash, 8) \o file_ext
          ELSE <<"d","o","c","_">> \o Prefix(doc_hash, 12) \o file_ext)

_validate_pdf(content) == Prefix(content, 5) = <<"%","P","D","F","-">>

_validate_office_doc(content) ==
    \E start \in {Lower(Prefix(content, 100))} :
        ~Contains(start, <<"<","h","t","m","l">>) /\ ~Contains(start, <<"<","!","d","o","c","t","y","p","e">>)

error_indicators ==
    { <<"<","h","t","m","l">>, <<"<","!","d","o","c","t","y","p","e">>, <<"<","h","e","a","d",">">>, <<"e","r","r","o","r"," ","4","0","4">>, <<"n","o","t"," ","f","o","u","n","d">>,
      <<"a","c","c","e","s","s"," ","d","e","n","i","e","d">>, <<"f","o","r","b","i","d","d","e","n">> }

_is_error_page(content) ==
    \E start \in {Lower(Prefix(content, 1000))} :
        \E indicator \in error_indicators : Contains(start, indicator)

\* content is what the file holds, NULL when the file does not exist
_validate_downloaded_file(content, expected_ext) ==
    IF content = NULL \/ content = <<>> THEN FALSE
    ELSE IF expected_ext = <<".","p","d","f">> THEN _validate_pdf(content)
    ELSE IF expected_ext \in {<<".","d","o","c">>, <<".","d","o","c","x">>} THEN _validate_office_doc(content)
    ELSE ~_is_error_page(content)

\* hashlib.md5(...).hexdigest(): an injective map from the strings that are hashed
\* in the model to 32 hexadecimal digits
HashedStrings ==
    << <<"h","t","t","p",":","/","/","h","/","a",".","p","d","f","|">>, <<"h","t","t","p",":","/","/","h","/","b",".","d","o","c","|">>, <<"h","t","t","p",":","/","/","h","/","c","|">>,
       <<"h","t","t","p",":","/","/","h","/","a",".","p","d","f","/","|">>, <<"h","t","t","p",":","/","/","h","/","/","a",".","p","d","f","|">> >>

md5_hexdigest(content) ==
    Let(CHOOSE i \in DOMAIN HashedStrings : HashedStrings[i] = content, LAMBDA n :
        [i \in 1..32 |-> HexDigits[((n * (2 * i + 1)) % 16) + 1]])

generate_hash(url, title) ==
    md5_hexdigest(Lower(Strip(url)) \o <<"|">> \o Lower(Strip(title)))

----------------------------------------------------------------------------
(* Bounds of the model *)

\* max_size_mb * 1024 * 1024 of download_document, scaled down to a few bytes
max_size_bytes == 6
\* chunk_size of response.iter_content, scaled down likewise
chunk_size == 4
\* orchestrator runs (processes) over one output directory
MaxRuns == 3
\* candidates one run processes
MaxDocsPerRun == 2
\* calls of download_document made on one FileManager by a direct caller
MaxCalls == 2
\* calls of _make_request in one process
MaxRequests == 2

----------------------------------------------------------------------------
(* Inputs: candidates and network answers *)

URL_A == <<"h","t","t","p",":","/","/","h","/","a",".","p","d","f">>
URL_B == <<"h","t","t","p",":","/","/","h","/","b",".","d","o","c">>
URL_C == <<"h","t","t","p",":","/","/","h","/","c">>

URLs == {URL_A, URL_B, URL_C}

TITLE_MODELO == <<"M","o","d","e","l","o"," ","0","3","0">>

Titles == {<<>>, TITLE_MODELO}

\* doc_data as the scrapers return it
Docs ==
    { [download_url |-> URL_A, title |-> TITLE_MODELO],
      [download_url |-> URL_B, title |-> <<"G","u","i","a">>],
      [download_url |-> URL_A, title |-> <<>>] }

\* DocumentCategorizer categories; create_directories makes no directory for "comercial"
Categories == {"fiscal", "comercial"}

\* the category the orchestrator runs are checked with
RunCategories == {"fiscal"}

CT_PDF  == <<"a","p","p","l","i","c","a","t","i","o","n","/","p","d","f">>
CT_HTML == <<"t","e","x","t","/","h","t","m","l">>
CT_PPTX == <<"a","p","p","l","i","c","a","t","i","o","n","/","v","n","d",".","o","p","e","n","x","m","l","f","o","r","m","a","t","s","-","o","f","f","i","c","e","d","o","c","u","m","e","n","t",".","p","r","e","s","e","n","t","a","t","i","o","n","m","l",".","p","r","e","s","e","n","t","a","t","i","o","n">>

BODY_PDF   == <<"%","P","D","F","-","1">>
BODY_TEXT  == <<"h","o","l","a">>
BODY_HTML  == <<"<","h","t","m","l",">">>
BODY_LARGE == <<"%","P","D","F","-","1",".","4"," ","l","a","r","g","e">>

\* The answer to requests.get(url, stream=True) and what follows it:
\*   get            "ok" | "exception" (requests.get raises) | "http_error" (raise_for_status raises)
\*   content_type   the content-type header ('' when absent)
\*   content_length the content-length header, NULL when absent
\*   body           the bytes the server sends
\*   fail_after     the number of chunks iter_content yields before it raises, -1: never
\*   open_fails     open(file_path, 'wb') raises IOError
\*   head           answer to the HEAD request of get_file_extension: the content-type
\*                  header of a 200 answer, NULL when it raises or answers otherwise
Response(get, ct, cl, body, fa, of, head) ==
    [get |-> get, content_type |-> ct, content_length |-> cl, body |-> body,
     fail_after |-> fa, open_fails |-> of, head |-> head]

R_SUCCESS   == Response("ok", CT_PDF, NULL, BODY_PDF, -1, FALSE, NULL)
R_NOT_PDF   == Response("ok", CT_PDF, NULL, BODY_TEXT, -1, FALSE, NULL)
R_CUT       == Response("ok", CT_PDF, NULL, BODY_PDF, 1, FALSE, NULL)
R_EXCEPTION == Response("exception", <<>>, NULL, <<>>, -1, FALSE, NULL)

\* the answers the orchestrator runs are checked with
RunResponses == {R_SUCCESS, R_NOT_PDF, R_CUT, R_EXCEPTION}

\* the answers download_document is checked with
Responses ==
    RunResponses
    \cup { Response("http_error", <<>>, NULL, <<>>, -1, FALSE, NULL),
           Response("ok", CT_HTML, NULL, BODY_PDF, -1, FALSE, NULL),
           Response("ok", CT_PDF, <<"x">>, BODY_PDF, -1, FALSE, NULL),
           Response("ok", CT_PDF, <<"9">>, BODY_PDF, -1, FALSE, NULL),
           Response("ok", CT_PDF, <<"6">>, BODY_PDF, -1, FALSE, NULL),
           Response("ok", CT_PDF, NULL, BODY_PDF, -1, TRUE, NULL),
           Response("ok", CT_PDF, NULL, BODY_HTML, -1, FALSE, NULL),
           Response("ok", CT_PDF, NULL, BODY_LARGE, -1, FALSE, NULL),
           Response("ok", CT_PDF, NULL, BODY_LARGE, 1, FALSE, NULL),
           Response("ok", CT_PDF, NULL, <<>>, -1, FALSE, NULL),
           Response("ok", CT_PDF, NULL, BODY_TEXT, 0, FALSE, NULL),
           Response("ok", CT_PPTX, NULL, BODY_PDF, -1, FALSE, CT_PDF),
           Response("ok", CT_PPTX, NULL, BODY_TEXT, -1, FALSE, NULL) }

\* answers to the HEAD request get_file_extension makes from _process_document
HeadAnswers == {NULL, CT_PDF}

\* ScrapingConfig.VALID_EXTENSIONS
VALID_EXTENSIONS ==
    { <<".","p","d","f">>, <<".","d","o","c">>, <<".","d","o","c","x">>, <<".","x","l","s">>, <<".","x","l","s","x">>, <<".","t","x","t">>, <<".","r","t","f">> }

\* ScrapingConfig.create_directories: the category directories it makes
CreatedDirectories == {"fiscal", "laboral", "municipal", "autonomico", "general"}

\* Two of TARGET_SOURCES (settings.py), which are on one origin; the host is
\* shortened
Institutions == {"hacienda_canarias", "gobcan"}

BaseUrlConfigured ==
    [inst \in Institutions |->
        IF inst = "hacienda_canarias" THEN <<"h","t","t","p","s",":","/","/","g",".","o","r","g","/","h","a","c","i","e","n","d","a","/">>
        ELSE <<"h","t","t","p","s",":","/","/","g",".","o","r","g","/">>]

PAGE         == <<"h","t","t","p","s",":","/","/","g",".","o","r","g","/","d","o","c">>
PAGE_SLASH   == <<"h","t","t","p","s",":","/","/","g",".","o","r","g","/","d","o","c","/">>
PAGE_PRIVATE == <<"h","t","t","p","s",":","/","/","g",".","o","r","g","/","p","r","i","v","a","t","e","/","x">>
\* a page of another origin than the base URLs
PAGE_OTHER   == <<"h","t","t","p","s",":","/","/","o",".","o","r","g","/","d","o","c">>

\* the URLs _make_request is called with
FetchURLs == {PAGE, PAGE_SLASH, PAGE_PRIVATE}
\* the URLs of a scraper that follows a link to another origin
OriginURLs == {PAGE, PAGE_OTHER}

UA_MOZILLA == <<"M","o","z","i","l","l","a","/","5",".","0">>
UA_OPERA   == <<"O","p","e","r","a","/","9",".","8","0">>

\* what UserAgent().random returns
UserAgents == {UA_MOZILLA, UA_OPERA}

\* the answer to the request for robots.txt
RobotsAnswer(kind, status, entries, default_entry) ==
    [kind |-> kind, status |-> status, entries |-> entries,
     default_entry |-> default_entry]

ROBOTS_UNREACHABLE == RobotsAnswer("unreachable", 0, <<>>, <<>>)
ROBOTS_403 == RobotsAnswer("http_error", 403, <<>>, <<>>)
ROBOTS_404 == RobotsAnswer("http_error", 404, <<>>, <<>>)
ROBOTS_500 == RobotsAnswer("http_error", 500, <<>>, <<>>)
\* User-agent: * / Disallow: /private
ROBOTS_PRIVATE ==
    RobotsAnswer("ok", 200, <<>>,
                 <<Entry({<<"*">>}, <<RuleLine(<<"/","p","r","i","v","a","t","e">>, FALSE)>>)>>)
\* User-agent: opera / Disallow: /doc
ROBOTS_OPERA ==
    RobotsAnswer("ok", 200, <<Entry({<<"o","p","e","r","a">>}, <<RuleLine(<<"/","d","o","c">>, FALSE)>>)>>, <<>>)

RobotsAnswers ==
    {ROBOTS_UNREACHABLE, ROBOTS_403, ROBOTS_404, ROBOTS_500, ROBOTS_PRIVATE, ROBOTS_OPERA}

\* the answer to one request of _make_request
Answer(kind, status) == [kind |-> kind, status |-> status]

A_OK         == Answer("ok", 200)
A_TIMEOUT    == Answer("timeout", 0)
A_CONNECTION == Answer("connection_error", 0)
A_SSL        == Answer("ssl_error", 0)
A_404        == Answer("http_error", 404)
A_429        == Answer("http_error", 429)
A_500        == Answer("http_error", 500)

Answers == {A_OK, A_TIMEOUT, A_CONNECTION, A_SSL, A_404, A_429, A_500}
\* what a server answers to a request made with verify=False
Unverified == {A_OK, A_CONNECTION}

----------------------------------------------------------------------------
(* State *)

VARIABLES
    \* the output directory, which outlives the processes
    files,              \* <<category, filename>> -> the bytes of the file
    dirs,               \* the category directories that exist
    metadata_file,      \* metadata.jsonl: [exists, lines], lines the sequence of records
    failed_file,        \* failed_downloads.json: [exists, failed_hashes]
    \* one orchestrator process
    phase,              \* "idle" (no process) | "running"
    ENABLE_DEDUPLICATION,
    ENABLE_DOWNLOAD,    \* config['ENABLE_DOWNLOAD']; TRUE: the key is not in the config
    downloaded_hashes,  \* FileManager.downloaded_hashes
    failed_downloads,   \* FileManager.failed_downloads
    scraped_documents,  \* CanariasPYMEScraper.scraped_documents
    \* what the last operation did
    call,
    \* history
    runs,               \* processes started so far
    calls,              \* direct calls of download_document so far
    streamed,           \* doc_hash -> successful downloads so far, over all runs
    ever_failed,        \* the doc_hashes a download recorded as failed, over all runs
    \* one orchestrator process and the scraper of the institution it processes
    \* (_process_institution holds one scraper at a time, in a local variable)
    RESPECT_ROBOTS_TXT,
    created,            \* the institutions whose scraper was created so far
    current,            \* the institution being processed
    processed_urls,     \* BaseScraper.processed_urls
    robots_cache,       \* BaseScraper.robots_cache: robots_url -> parser
    user_agent,         \* BaseScraper.session.headers['User-Agent']
    req,                \* the call of _make_request in progress, or the last one
    \* history of the process
    fetched_urls,       \* the canonical URLs some scraper got a response for
    robots_reads,       \* robots_url -> reads of it
    \* run_scraping of the process
    stats,              \* CanariasPYMEScraper.stats
    run,                \* the call of run_scraping: its loop and what it returned
    institution_log     \* history: the calls of _process_institution, in order

dlVars == << files, dirs, metadata_file, failed_file, phase, ENABLE_DEDUPLICATION,
            ENABLE_DOWNLOAD, downloaded_hashes, failed_downloads, scraped_documents,
            call, runs, calls, streamed, ever_failed >>

fetchVars == << RESPECT_ROBOTS_TXT, created, current, processed_urls, robots_cache,
                user_agent, req, fetched_urls, robots_reads >>

runVars == << stats, run, institution_log >>

vars == << dlVars, fetchVars, runVars >>

\* generate_hash(url), evaluated once per URL
HashOf == [u \in URLs |-> generate_hash(u, <<>>)]

DocHashes == { HashOf[u] : u \in URLs }

NoCall == [op |-> "none"]
\* the value of call.resp when download_document returns before requests.get
NoResponse == Response("none", <<>>, NULL, <<>>, -1, FALSE, NULL)

\* self.base_url of the scraper of an institution
BaseUrl == [inst \in Institutions |-> _normalize_url(Strip(BaseUrlConfigured[inst]))]

\* urljoin(self.base_url, '/robots.txt')
RobotsUrl == [inst \in Institutions |-> urljoin(BaseUrl[inst], <<"/","r","o","b","o","t","s",".","t","x","t">>)]

\* _normalize_url(url), evaluated once per URL
Normalized ==
    [url \in FetchURLs \cup OriginURLs \cup { BaseUrl[inst] : inst \in Institutions } |->
        _normalize_url(url)]

CanonicalURLs == { Normalized[url] : url \in DOMAIN Normalized }

\* the parsers a robots_cache can hold
Parsers == { IF a.kind = "unreachable" THEN NoParser ELSE read(a) : a \in RobotsAnswers }

\* rp.can_fetch(user_agent, url), evaluated once per input
CanFetch ==
    [rp \in Parsers \ {NoParser}, ua \in UserAgents, url \in CanonicalURLs |->
        can_fetch(rp, ua, url)]

NoRequest ==
    [state |-> "none", seq |-> 0, scraper |-> "none", url |-> <<>>,
     attempt |-> 0, rotates |-> FALSE, net |-> 0, unverified |-> 0, waits |-> <<>>,
     last |-> [kind |-> "none", status |-> 0], result |-> "none"]

\* no scraper exists
NoScrapers(respect) ==
    /\ RESPECT_ROBOTS_TXT = respect
    /\ created = {}
    /\ current = "none"
    /\ processed_urls = {}
    /\ robots_cache = << >>
    /\ user_agent = UA_MOZILLA
    /\ req = NoRequest
    /\ fetched_urls = {}
    /\ robots_reads = [url \in { RobotsUrl[inst] : inst \in Institutions } |-> 0]

\* self.stats of __init__ (start_time is not modelled)
NoStats ==
    [institutions_processed |-> 0, documents_found |-> 0, documents_downloaded |-> 0,
     errors |-> 0]

\* run_scraping was not called
NoRun ==
    /\ stats = NoStats
    /\ run = [state |-> "none", target_institutions |-> <<>>, index |-> 0,
              documents |-> <<>>, statistics |-> NoStats]
    /\ institution_log = <<>>

NoMetadataFile == [exists |-> FALSE, lines |-> <<>>]
NoFailedFile == [exists |-> FALSE, failed_hashes |-> {}]

----------------------------------------------------------------------------
(* FileManager.download_document *)

IsInt(s) == s # <<>> /\ \A i \in DOMAIN s : s[i] \in Range(Digits)

\* int(s) for a string of digits
RECURSIVE ParseInt(_)
ParseInt(s0) ==
    Let(s0, LAMBDA s :
        IF s = <<>> THEN 0
        ELSE 10 * ParseInt(SubSeq(s, 1, Len(s) - 1))
             + (CHOOSE d \in 0..9 : Digits[d + 1] = s[Len(s)]))

\* number of chunks iter_content yields for a body
NumChunks(body) == (Len(body) + chunk_size - 1) \div chunk_size

\* the bytes written once k chunks are written
Written(body, k) == Prefix(body, k * chunk_size)

\* the first chunk after which downloaded_size > max_size_bytes, 0 when there is none
ExceedsAt(body) ==
    IF Len(body) > max_size_bytes
      THEN CHOOSE k \in 1..NumChunks(body) :
              /\ Len(Written(body, k)) > max_size_bytes
              /\ \A j \in 1..(k - 1) : Len(Written(body, j)) <= max_size_bytes
      ELSE 0

\* iter_content raises after fail_after chunks, unless the size check returned first
StreamRaises(resp) ==
    /\ resp.fail_after >= 0
    /\ resp.fail_after < NumChunks(resp.body)
    /\ (ExceedsAt(resp.body) = 0 \/ resp.fail_after < ExceedsAt(resp.body))

\* download_document from requests.get on (lines 138-216): the path taken, by name
FetchOutcome(url, resp) ==
    Let(Lower(resp.content_type), LAMBDA content_type :
    LET content_length == resp.content_length
        file_ext       == get_file_extension(url, content_type, resp.head)
    IN  IF resp.get # "ok" THEN "network_error"
        ELSE IF ~_is_valid_content_type(content_type) THEN "bad_content_type"
        ELSE IF content_length # NULL /\ content_length # <<>> /\ ~IsInt(content_length)
          THEN "unexpected_error"
        ELSE IF content_length # NULL /\ content_length # <<>>
                /\ ParseInt(content_length) > max_size_bytes
          THEN "declared_too_large"
        ELSE IF resp.open_fails THEN "io_error"
        ELSE IF StreamRaises(resp) THEN "stream_error"
        ELSE IF ExceedsAt(resp.body) > 0 THEN "stream_too_large"
        ELSE IF ~_validate_downloaded_file(resp.body, file_ext) THEN "validation_failed"
        ELSE "success")

\* outcomes that reach open(file_path, 'wb')
OpensFile == {"stream_error", "stream_too_large", "validation_failed", "success"}
\* outcomes that reach get_file_extension and the mkdir of the category directory
PastSizeCheck == OpensFile \cup {"io_error"}
\* outcomes that add doc_hash to failed_downloads
RecordsFailure ==
    {"network_error", "bad_content_type", "unexpected_error", "declared_too_large",
     "io_error", "stream_error", "stream_too_large", "validation_failed"}

\* what a download does that does not depend on the FileManager's state,
\* evaluated once per input
Fetch ==
    [url \in URLs, title \in Titles, resp \in Responses |->
        Let(Lower(resp.content_type), LAMBDA content_type :
        Let(get_file_extension(url, content_type, resp.head), LAMBDA file_ext :
        Let(FetchOutcome(url, resp), LAMBDA outcome :
            [outcome      |-> outcome,
             content_type |-> content_type,
             filename     |-> _generate_filename(HashOf[url], title, file_ext),
             heads        |-> IF outcome \in PastSizeCheck
                                 /\ HeadRequested(url, content_type) THEN 1 ELSE 0,
             partial      |-> IF outcome = "stream_error"
                                  THEN Written(resp.body, resp.fail_after)
                                ELSE IF outcome = "stream_too_large"
                                  THEN Written(resp.body, ExceedsAt(resp.body))
                                ELSE <<>>])))]

WriteFile(path, content) ==
    [p \in DOMAIN files \cup {path} |-> IF p = path THEN content ELSE files[p]]

\* an unlink that leaves the file in place
Unlink_keeps_file(fs, path) == fs

\* the files fs after file_path.unlink()
Unlink(fs, path) == [p \in DOMAIN fs \ {path} |-> fs[p]]

\* _get_existing_file_path: the values it can return (iterdir has no fixed order)
_get_existing_file_path(doc_hash, category) ==
    IF category \notin dirs THEN {NULL}
    ELSE IF \E p \in DOMAIN files : p[1] = category /\ Contains(p[2], doc_hash)
      THEN { p \in DOMAIN files : p[1] = category /\ Contains(p[2], doc_hash) }
    ELSE {NULL}

\* CheckedBefore without the look-up in downloaded_hashes
CheckedBefore_without_ledger(doc_hash) ==
    IF doc_hash \in failed_downloads THEN "failed_before" ELSE "fetch"

\* download_document, lines 124-132: the two checks before any request
CheckedBefore(doc_hash) ==
    IF doc_hash \in downloaded_hashes THEN "cache_hit"
    ELSE IF doc_hash \in failed_downloads THEN "failed_before"
    ELSE "fetch"

\* download_document(url, category, doc_hash, title) with doc_hash = generate_hash(url)
download_document(url, category, title, resp) ==
    LET doc_hash  == HashOf[url]
        fetch     == Fetch[url, title, resp]
        checked   == CheckedBefore(doc_hash)
        outcome   == IF checked = "fetch" THEN fetch.outcome ELSE checked
        file_path == <<category, fetch.filename>>
        fetched   == outcome \notin {"cache_hit", "failed_before"}
    IN  /\ downloaded_hashes' =
              IF outcome = "success" THEN downloaded_hashes \cup {doc_hash}
              ELSE downloaded_hashes
        /\ failed_downloads' =
              IF outcome \in RecordsFailure THEN failed_downloads \cup {doc_hash}
              ELSE failed_downloads
        /\ dirs' = IF outcome \in PastSizeCheck THEN dirs \cup {category} ELSE dirs
        /\ files' =
              CASE outcome = "success" -> WriteFile(file_path, resp.body)
                [] outcome = "stream_error" -> WriteFile(file_path, fetch.partial)
                [] outcome = "stream_too_large" ->
                      Unlink(WriteFile(file_path, fetch.partial), file_path)
                [] outcome = "validation_failed" ->
                      Unlink(WriteFile(file_path, resp.body), file_path)
                [] OTHER -> files
        /\ streamed' =
              IF outcome = "success"
                THEN [streamed EXCEPT ![doc_hash] = @ + 1] ELSE streamed
        /\ ever_failed' =
              IF outcome \in RecordsFailure THEN ever_failed \cup {doc_hash}
              ELSE ever_failed
        /\ \E ret \in (IF outcome = "cache_hit"
                         THEN _get_existing_file_path(doc_hash, category)
                       ELSE IF outcome = "success" THEN {file_path} ELSE {NULL}) :
              call' = [op |-> "download_document", url |-> url, category |-> category,
                       doc_hash |-> doc_hash, outcome |-> outcome, ret |-> ret,
                       gets |-> IF fetched THEN 1 ELSE 0,
                       heads |-> IF fetched THEN fetch.heads ELSE 0,
                       content_type |-> IF fetched THEN fetch.content_type ELSE NULL,
                       body |-> IF fetched /\ resp.get = "ok" THEN resp.body ELSE NULL,
                       resp |-> IF fetched THEN resp ELSE NoResponse,
                       path |-> IF outcome \in OpensFile THEN file_path ELSE NULL]

----------------------------------------------------------------------------
(* CanariasPYMEScraper: one process per run *)

\* FileManager._load_existing_state: the hashes of the ledger lines with a local_path
LoadedHashes ==
    IF ~metadata_file.exists THEN {}
    ELSE { metadata_file.lines[i].document_id :
              i \in { j \in DOMAIN metadata_file.lines :
                          metadata_file.lines[j].local_path # NULL } }

\* FileManager._load_existing_state: the hashes of failed_downloads.json
LoadedFailed == IF ~failed_file.exists THEN {} ELSE failed_file.failed_hashes

\* CanariasPYMEScraper.__init__: create_directories, FileManager.__init__ with
\* _load_existing_state.  dedup is the configured ENABLE_DEDUPLICATION.
StartRun(dedup) ==
    /\ phase = "idle"
    /\ runs < MaxRuns
    /\ phase' = "running"
    /\ runs' = runs + 1
    /\ ENABLE_DEDUPLICATION' = dedup
    /\ ENABLE_DOWNLOAD' = TRUE
    /\ dirs' = dirs \cup CreatedDirectories
    /\ downloaded_hashes' = LoadedHashes
    /\ failed_downloads' = LoadedFailed
    /\ scraped_documents' = <<>>
    /\ call' = [op |-> "start"]
    /\ stats' = NoStats
    /\ UNCHANGED << files, metadata_file, failed_file, calls, streamed, ever_failed >>
    /\ UNCHANGED fetchVars
    /\ UNCHANGED << run, institution_log >>

\* get_file_extension(download_url) of _process_document, evaluated once per input
FileType == [url \in URLs, head \in HeadAnswers |-> get_file_extension(url, NULL, head)]

\* _should_download
_should_download(download_url, file_type) ==
    /\ Lower(file_type) \in VALID_EXTENSIONS
    /\ (StartsWith(download_url, <<"h","t","t","p",":","/","/">>) \/ StartsWith(download_url, <<"h","t","t","p","s",":","/","/">>))

ShouldDownload ==
    [url \in URLs, head \in HeadAnswers |-> _should_download(url, FileType[url, head])]

\* doc_data.get(key): None when the dictionary has no such key
dict_get(doc_data, key) == IF key \in DOMAIN doc_data THEN doc_data[key] ELSE NULL

\* _process_document returned None before creating a record
SkipDocument(reason) ==
    /\ call' = [op |-> "process_document", outcome |-> reason]
    /\ UNCHANGED << files, dirs, downloaded_hashes, failed_downloads,
                    scraped_documents, streamed, ever_failed >>

\* _process_document(doc_data) and the append of its result.  category is what
\* categorize returns, head the answer to the HEAD request of
\* get_file_extension(download_url), resp the answer to the download.
_process_document(doc_data, category, head, resp) ==
    /\ phase = "running"
    /\ Len(scraped_documents) < MaxDocsPerRun
    /\ LET download_url == dict_get(doc_data, "download_url")
           title        == dict_get(doc_data, "title")
           doc_hash     == HashOf[download_url]
       IN  IF download_url \in {NULL, <<>>} \/ title \in {NULL, <<>>}
             THEN SkipDocument("no_url_or_title")
           ELSE IF ENABLE_DEDUPLICATION /\ doc_hash \in downloaded_hashes
             THEN SkipDocument("duplicate")
           ELSE IF ~ShouldDownload[download_url, head]
             THEN /\ scraped_documents' =
                        Append(scraped_documents,
                               [document_id |-> doc_hash, category |-> category,
                                local_path |-> NULL])
                  /\ call' = [op |-> "process_document", outcome |-> "not_downloaded"]
                  /\ UNCHANGED << files, dirs, downloaded_hashes, failed_downloads,
                                  streamed, ever_failed >>
           ELSE /\ download_document(download_url, category, <<>>, resp)
                /\ scraped_documents' =
                      Append(scraped_documents,
                             [document_id |-> doc_hash, category |-> category,
                              local_path |-> call'.ret])
    /\ stats' = IF call'.op = "download_document" /\ call'.ret # NULL
                  THEN [stats EXCEPT !.documents_downloaded = @ + 1]
                  ELSE stats
    /\ UNCHANGED << metadata_file, failed_file, phase, ENABLE_DEDUPLICATION,
                    ENABLE_DOWNLOAD, runs, calls >>

\* One iteration of the loop of _process_institution
ProcessDocument(doc_data, category, head, resp) ==
    /\ _process_document(doc_data, category, head, resp)
    /\ UNCHANGED fetchVars
    /\ UNCHANGED << run, institution_log >>

\* _save_metadata: metadata.jsonl is opened with 'w' and gets one line per
\* element of scraped_documents
_save_metadata == metadata_file' = [exists |-> TRUE, lines |-> scraped_documents]

\* _finalize_scraping, after which the process ends
_finalize_scraping ==
    /\ phase = "running"
    /\ _save_metadata
    /\ phase' = "idle"
    /\ downloaded_hashes' = {}
    /\ failed_downloads' = {}
    /\ scraped_documents' = <<>>
    /\ call' = [op |-> "finalize"]
    /\ stats' = NoStats
    /\ UNCHANGED << files, dirs, failed_file, ENABLE_DEDUPLICATION, ENABLE_DOWNLOAD,
                    runs, calls, streamed, ever_failed >>

FinalizeScraping ==
    /\ _finalize_scraping
    /\ UNCHANGED fetchVars
    /\ UNCHANGED << run, institution_log >>

\* main(): if args.dry_run: scraper.config.set('ENABLE_DOWNLOAD', False), between
\* the construction of the scraper and run_scraping
DryRun ==
    /\ phase = "running"
    /\ call.op = "start"
    /\ ENABLE_DOWNLOAD
    /\ ENABLE_DOWNLOAD' = FALSE
    /\ UNCHANGED << files, dirs, metadata_file, failed_file, phase, ENABLE_DEDUPLICATION,
                    downloaded_hashes, failed_downloads, scraped_documents, call, runs,
                    calls, streamed, ever_failed >>
    /\ UNCHANGED fetchVars
    /\ UNCHANGED runVars

Init ==
    /\ files = << >>
    /\ dirs = {}
    /\ metadata_file = NoMetadataFile
    /\ failed_file = NoFailedFile
    /\ phase = "idle"
    /\ ENABLE_DEDUPLICATION = TRUE
    /\ ENABLE_DOWNLOAD = TRUE
    /\ downloaded_hashes = {}
    /\ failed_downloads = {}
    /\ scraped_documents = <<>>
    /\ call = NoCall
    /\ runs = 0
    /\ calls = 0
    /\ streamed = [h \in DocHashes |-> 0]
    /\ ever_failed = {}
    /\ NoScrapers(TRUE)
    /\ NoRun

Next ==
    \/ \E dedup \in BOOLEAN : StartRun(dedup)
    \/ DryRun
    \/ \E doc_data \in Docs, category \in RunCategories, head \in HeadAnswers,
          resp \in RunResponses :
          ProcessDocument(doc_data, category, head, resp)
    \/ FinalizeScraping

\* Orchestrator runs over one output directory
Spec == Init /\ [][Next]_vars

----------------------------------------------------------------------------
(* A FileManager called directly *)

\* FileManager(output_dir) on an output directory that create_directories prepared
InitFM ==
    /\ files = << >>
    /\ dirs = CreatedDirectories
    /\ metadata_file = NoMetadataFile
    /\ failed_file = NoFailedFile
    /\ phase = "running"
    /\ ENABLE_DEDUPLICATION = TRUE
    /\ ENABLE_DOWNLOAD = TRUE
    /\ downloaded_hashes = LoadedHashes
    /\ failed_downloads = LoadedFailed
    /\ scraped_documents = <<>>
    /\ call = NoCall
    /\ runs = 1
    /\ calls = 0
    /\ streamed = [h \in DocHashes |-> 0]
    /\ ever_failed = {}
    /\ NoScrapers(TRUE)
    /\ NoRun

DownloadCall(url, category, title, resp) ==
    /\ calls < MaxCalls
    /\ calls' = calls + 1
    /\ download_document(url, category, title, resp)
    /\ UNCHANGED << metadata_file, failed_file, phase, ENABLE_DEDUPLICATION,
                    ENABLE_DOWNLOAD, scraped_documents, runs >>
    /\ UNCHANGED fetchVars
    /\ UNCHANGED runVars

NextFM ==
    \E url \in URLs, category \in Categories, title \in Titles, resp \in Responses :
        DownloadCall(url, category, title, resp)

SpecFM == InitFM /\ [][NextFM]_vars

----------------------------------------------------------------------------
(* BaseScraper: the fetch engine of one orchestrator process *)

\* _can_fetch that never consults the cached rules
_can_fetch_without_rules(url) == TRUE

\* BaseScraper._can_fetch
_can_fetch(url) ==
    IF ~RESPECT_ROBOTS_TXT THEN TRUE
    ELSE IF RobotsUrl[current] \notin DOMAIN robots_cache THEN TRUE
    ELSE LET rp == robots_cache[RobotsUrl[current]]
         IN  rp.none \/ CanFetch[rp, user_agent, url]

\* BaseScraper._check_robots_txt in __init__
_check_robots_txt(inst, answer) ==
    /\ robots_cache' =
          (RobotsUrl[inst] :> (IF answer.kind = "unreachable"
                                 THEN NoParser ELSE read(answer)))
    /\ robots_reads' = [robots_reads EXCEPT ![RobotsUrl[inst]] = @ + 1]

\* ScraperFactory.create_scraper in _process_institution: BaseScraper.__init__.
\* ua is what UserAgent().random returns, answer the answer for robots.txt.
create_scraper(inst, answer, ua) ==
    /\ req.state # "running"
    /\ inst \notin created
    /\ created' = created \cup {inst}
    /\ current' = inst
    /\ processed_urls' = {}
    /\ user_agent' = ua
    /\ IF RESPECT_ROBOTS_TXT
         THEN _check_robots_txt(inst, answer)
         ELSE robots_cache' = << >> /\ UNCHANGED robots_reads
    /\ UNCHANGED << RESPECT_ROBOTS_TXT, req, fetched_urls >>

CreateScraper(inst, answer, ua) ==
    /\ create_scraper(inst, answer, ua)
    /\ UNCHANGED dlVars
    /\ UNCHANGED runVars

\* the call returns None without a request
ReturnsNone(r, why) ==
    /\ req' = [r EXCEPT !.state = "returned", !.result = why]
    /\ UNCHANGED << processed_urls, user_agent, fetched_urls >>

\* the exception session.get or raise_for_status raises for an answer
ExceptionOf(answer) ==
    CASE answer.kind = "timeout" -> "Timeout"
      [] answer.kind = "connection_error" -> "ConnectionError"
      [] answer.kind = "ssl_error" -> "SSLError"
      [] answer.kind = "http_error" -> "HTTPError"

\* requests.exceptions: the classes an exception is an instance of
Bases(exc) ==
    CASE exc = "Timeout" -> {"Timeout", "RequestException", "Exception"}
      [] exc = "ConnectionError" -> {"ConnectionError", "RequestException", "Exception"}
      [] exc = "SSLError" ->
            {"SSLError", "ConnectionError", "RequestException", "Exception"}
      [] exc = "HTTPError" -> {"HTTPError", "RequestException", "Exception"}

\* the except clauses of _make_request, in the order they are written
ExceptClauses == << "Timeout", "ConnectionError", "HTTPError", "SSLError", "Exception" >>

\* the clause that handles an exception: the first one that matches
Handler(exc) ==
    ExceptClauses[CHOOSE i \in DOMAIN ExceptClauses :
                     /\ ExceptClauses[i] \in Bases(exc)
                     /\ \A j \in 1..(i - 1) : ExceptClauses[j] \notin Bases(exc)]

Request == [kind |-> "request", secs |-> 0]
Sleep(kind, secs) == [kind |-> kind, secs |-> secs]

\* with_retry: a wrapper that calls again without sleeping
Raised_without_sleep(r) ==
    IF r.attempt = max_retries
      THEN [r EXCEPT !.state = "raised", !.result = "raised"]
      ELSE [r EXCEPT !.attempt = @ + 1]

\* with_retry: what the wrapper does with an exception of the attempt
Raised(r) ==
    IF r.attempt = max_retries
      THEN [r EXCEPT !.state = "raised", !.result = "raised"]
      ELSE [r EXCEPT !.attempt = @ + 1,
                     !.waits = Append(@, Sleep("backoff", wait_time(r.attempt)))]

\* processed_urls where every answer marks the URL
ProcessedAfter_any_answer(url, answer) == processed_urls \cup {url}

\* processed_urls after the request of url was answered: raise_for_status comes
\* before self.processed_urls.add(url)
ProcessedAfter(url, answer) ==
    IF answer.kind = "ok" THEN processed_urls \cup {url} ELSE processed_urls

\* One execution of the body of _make_request and of the wrapper around it, for
\* the call r.  answer is the answer to the request, fallback the answer to a
\* request without certificate verification, ua_random what UserAgent().random
\* returns when the user agent is rotated.
Attempt(r, answer, fallback, ua_random) ==
    LET url == r.url
    IN  /\ IF url \in processed_urls THEN ReturnsNone(r, "already_processed")
           ELSE IF ~_can_fetch(url) THEN ReturnsNone(r, "blocked")
           ELSE /\ user_agent' = IF r.rotates THEN ua_random ELSE user_agent
                /\ processed_urls' = ProcessedAfter(url, answer)
                /\ LET requested == [r EXCEPT !.net = @ + 1,
                                              !.last = answer,
                                              !.waits = Append(@, Request)]
                   IN  IF answer.kind = "ok"
                         THEN /\ fetched_urls' = fetched_urls \cup {url}
                              /\ req' = [requested EXCEPT
                                           !.state = "returned",
                                           !.result = "response",
                                           !.waits = Append(@,
                                               Sleep("request_delay", REQUEST_DELAY))]
                       ELSE LET handler == Handler(ExceptionOf(answer))
                            IN  CASE handler = "HTTPError" /\ answer.status = 429 ->
                                       /\ UNCHANGED fetched_urls
                                       /\ req' = Raised([requested EXCEPT
                                                   !.waits = Append(@,
                                                      Sleep("rate_limit", RATE_LIMIT_DELAY))])
                                  [] handler = "SSLError" ->
                                       LET again == [requested EXCEPT
                                                       !.net = @ + 1,
                                                       !.unverified = @ + 1,
                                                       !.waits = Append(@, Request)]
                                       IN  IF fallback.kind = "ok"
                                             THEN /\ fetched_urls' = fetched_urls \cup {url}
                                                  /\ req' = [again EXCEPT
                                                               !.state = "returned",
                                                               !.result = "response"]
                                             ELSE /\ UNCHANGED fetched_urls
                                                  /\ req' = Raised(again)
                                  [] OTHER ->
                                       /\ UNCHANGED fetched_urls
                                       /\ req' = Raised(requested)
        /\ UNCHANGED << RESPECT_ROBOTS_TXT, created, current, robots_cache, robots_reads >>
        /\ UNCHANGED dlVars
        /\ UNCHANGED runVars

\* scraper._make_request(url): the wrapper enters its loop and runs the first
\* attempt.  rotates is hash(url) % 15 == 0, which is fixed for the call.
MakeRequest(raw, rotates, answer, fallback, ua_random) ==
    /\ current # "none"
    /\ req.state # "running"
    /\ req.seq < MaxRequests
    /\ Attempt([NoRequest EXCEPT !.state = "running", !.seq = req.seq + 1,
                                 !.scraper = current,
                                 !.url = Normalized[raw], !.rotates = rotates],
               answer, fallback, ua_random)

\* with_retry: the wrapper slept and runs the next attempt
RetryRequest(answer, fallback, ua_random) ==
    /\ req.state = "running"
    /\ Attempt(req, answer, fallback, ua_random)

InitFetch ==
    /\ files = << >>
    /\ dirs = {}
    /\ metadata_file = NoMetadataFile
    /\ failed_file = NoFailedFile
    /\ phase = "running"
    /\ ENABLE_DEDUPLICATION = TRUE
    /\ ENABLE_DOWNLOAD = TRUE
    /\ downloaded_hashes = {}
    /\ failed_downloads = {}
    /\ scraped_documents = <<>>
    /\ call = NoCall
    /\ runs = 1
    /\ calls = 0
    /\ streamed = [h \in DocHashes |-> 0]
    /\ ever_failed = {}
    /\ \E respect \in BOOLEAN : NoScrapers(respect)
    /\ NoRun

NextFetch ==
    \/ \E inst \in Institutions, answer \in RobotsAnswers, ua \in UserAgents :
          CreateScraper(inst, answer, ua)
    \/ \E raw \in FetchURLs, rotates \in BOOLEAN, answer \in Answers,
          fallback \in Unverified, ua_random \in UserAgents :
          MakeRequest(raw, rotates, answer, fallback, ua_random)
    \/ \E answer \in Answers, fallback \in Unverified, ua_random \in UserAgents :
          RetryRequest(answer, fallback, ua_random)

\* The scrapers of one orchestrator process and their requests
SpecFetch == InitFetch /\ [][NextFetch]_vars

NextOrigin ==
    \/ \E inst \in Institutions, answer \in RobotsAnswers, ua \in UserAgents :
          CreateScraper(inst, answer, ua)
    \/ \E raw \in OriginURLs, answer \in {A_OK, A_TIMEOUT} :
          MakeRequest(raw, FALSE, answer, A_OK, user_agent)
    \/ \E answer \in {A_OK, A_TIMEOUT} : RetryRequest(answer, A_OK, user_agent)

\* Scrapers that request pages of their own origin and of another one
SpecOrigin == InitFetch /\ [][NextOrigin]_vars

----------------------------------------------------------------------------
(* GobcanScraper.scrape_documents *)

\* the institutions whose scraper calls validate_config in scrape_documents
ValidatingScrapers == {"gobcan"}

\* BaseScraper.validate_config, called first in scrape_documents: the scraper has
\* made no request yet.  response = self._make_request(self.base_url); an
\* exception of the request is caught and validate_config returns True.
ValidateConfig(rotates, answer, fallback, ua_random) ==
    /\ current \in ValidatingScrapers
    /\ req.seq = 0
    /\ MakeRequest(BaseUrl[current], rotates, answer, fallback, ua_random)

\* GobcanScraper._scrape_main_gobcan_page, the next request of scrape_documents:
\* response = self._make_request(self.base_url); without a response the page
\* gives no documents
ScrapeMainPage(rotates, answer, fallback, ua_random) ==
    /\ current \in ValidatingScrapers
    /\ req.seq = 1
    /\ req.scraper = current
    /\ MakeRequest(BaseUrl[current], rotates, answer, fallback, ua_random)

NextScrape ==
    \/ \E inst \in Institutions, answer \in RobotsAnswers, ua \in UserAgents :
          CreateScraper(inst, answer, ua)
    \/ \E rotates \in BOOLEAN, answer \in Answers, fallback \in Unverified,
          ua_random \in UserAgents :
          ValidateConfig(rotates, answer, fallback, ua_random)
    \/ \E answer \in Answers, fallback \in Unverified, ua_random \in UserAgents :
          RetryRequest(answer, fallback, ua_random)
    \/ \E rotates \in BOOLEAN, answer \in Answers, fallback \in Unverified,
          ua_random \in UserAgents :
          ScrapeMainPage(rotates, answer, fallback, ua_random)

\* One scraper that runs scrape_documents up to its main page
SpecScrape == InitFetch /\ [][NextScrape]_vars

----------------------------------------------------------------------------
(* BaseScraper: document candidates *)

\* str.endswith
EndsWith(s, suffix) ==
    Len(suffix) <= Len(s) /\ SubSeq(s, Len(s) - Len(suffix) + 1, Len(s)) = suffix

\* any(x in text for x in strings)
AnyIn(strings, text) == \E i \in DOMAIN strings : Contains(text, strings[i])

valid_extensions ==
    << <<".","p","d","f">>, <<".","d","o","c">>, <<".","d","o","c","x">>, <<".","x","l","s">>, <<".","x","l","s","x">>, <<".","p","p","t">>,
       <<".","p","p","t","x">>, <<".","o","d","t">>, <<".","o","d","s">>, <<".","o","d","p">>, <<".","r","t","f">>, <<".","t","x","t">>,
       <<".","z","i","p">>, <<".","r","a","r">> >>

doc_patterns ==
    << <<"d","o","c","u","m","e","n","t","o">>, <<"f","o","r","m","u","l","a","r","i","o">>, <<"m","o","d","e","l","o">>, <<"i","m","p","r","e","s","o">>, <<"d","o","w","n","l","o","a","d">>,
       <<"d","e","s","c","a","r","g","a","r">>, <<"a","r","c","h","i","v","o">>, <<"f","i","l","e">>, <<"a","t","t","a","c","h","m","e","n","t">>, <<"m","e","d","i","a">>,
       <<"s","o","l","i","c","i","t","u","d">>, <<"c","e","r","t","i","f","i","c","a","d","o">>, <<"i","n","f","o","r","m","e">>, <<"g","u","i","a">>, <<"m","a","n","u","a","l">> >>

url_params == << <<"?","f","i","l","e","=">>, <<"&","f","i","l","e","=">>, <<"f","i","l","e","n","a","m","e","=">>, <<"d","o","c","u","m","e","n","t","=">> >>

\* BaseScraper._is_valid_document_url
_is_valid_document_url(url) ==
    Let(Lower(url), LAMBDA url_lower :
        \/ \E i \in DOMAIN valid_extensions : EndsWith(url_lower, valid_extensions[i])
        \/ AnyIn(valid_extensions, url_lower)
        \/ AnyIn(doc_patterns, url_lower)
        \/ AnyIn(url_params, url_lower))

\* ' '.join(s.split())
RECURSIVE JoinSplit(_)
JoinSplit(s0) ==
    Let(Strip(s0), LAMBDA s :
        Let(FindAny(s, {" "}), LAMBDA i :
            IF i > Len(s) THEN s
            ELSE SubSeq(s, 1, i - 1) \o <<" ">> \o JoinSplit(From(s, i))))

\* BaseScraper._resolve_url
_resolve_url(href0, base_url) ==
    IF href0 = <<>> THEN <<>>
    ELSE Let(Strip(href0), LAMBDA href :
             IF StartsWith(href, <<"h","t","t","p",":","/","/">>) \/ StartsWith(href, <<"h","t","t","p","s",":","/","/">>)
               THEN _normalize_url(href)
             ELSE IF StartsWith(href, <<"/","/">>)
               THEN _normalize_url(urlparse(base_url).scheme \o <<":">> \o href)
             ELSE _normalize_url(urljoin(base_url, href)))

\* link.get(name, default)
Get(link, name, default) == IF link[name] = NULL THEN default ELSE link[name]

\* the value _extract_document_info returns for None
NoDocInfo == [url |-> NULL, title |-> NULL, source_url |-> NULL]

\* BaseScraper._extract_document_info: the url, title and source_url of
\* the dictionary it returns, for a link whose content is one text node
_extract_document_info(link, base_url) ==
    IF link.href = NULL \/ link.href = <<>> THEN NoDocInfo
    ELSE Let(_resolve_url(link.href, base_url), LAMBDA full_url :
        IF full_url = <<>> \/ ~_is_valid_document_url(full_url) THEN NoDocInfo
        ELSE LET text    == Strip(link.text)
                 found   == IF text = <<>>
                              THEN Get(link, "title", Get(link, "aria_label", <<>>))
                              ELSE text
                 cleaned == JoinSplit(found)
                 title   == IF Len(cleaned) > 200
                              THEN Prefix(cleaned, 197) \o <<".",".",".">>
                              ELSE cleaned
             IN  [url        |-> full_url,
                  title      |-> IF title = <<>> THEN <<"D","o","c","u","m","e","n","t","o"," ","s","i","n"," ","t","í","t","u","l","o">>
                                 ELSE title,
                  source_url |-> base_url])

----------------------------------------------------------------------------
(* DocumentCategorizer *)

RECURSIVE SumOf(_)
SumOf(numbers0) ==
    Let(numbers0, LAMBDA numbers :
        IF numbers = <<>> THEN 0 ELSE Head(numbers) + SumOf(Tail(numbers)))

\* the characters \w, \d and \s match in the texts of the model
WordChars  == Letters \cup Range(Digits) \cup {"_"}
DigitChars == Range(Digits)
SpaceChars == {" "}

\* A regular expression is a sequence of items: a literal text, one or more
\* characters of a class (\s+, \d+, \w+), or the word boundary \b.
Lit(text)   == <<"lit", text>>
Plus(chars) == <<"+", chars>>
WordBoundary == <<"b", {}>>

IsWordAt(text, i) == i \in DOMAIN text /\ text[i] \in WordChars

\* the index after the match of re that starts at index i of text, 0 when
\* there is none; a class is matched greedily, and no item of the expressions
\* of the categorizer can give back what the class before it took
RECURSIVE MatchAt(_, _, _)
MatchAt(re0, text, i0) ==
    Let(<< re0, i0 >>, LAMBDA a :
        IF a[1] = <<>> THEN a[2]
        ELSE Let(<< Head(a[1])[1], Head(a[1])[2], Tail(a[1]), a[2] >>, LAMBDA b :
            IF b[1] = "lit"
              THEN IF /\ b[4] + Len(b[2]) - 1 <= Len(text)
                      /\ \A k \in DOMAIN b[2] : text[b[4] + k - 1] = b[2][k]
                     THEN MatchAt(b[3], text, b[4] + Len(b[2]))
                     ELSE 0
            ELSE IF b[1] = "+"
              THEN Let(CHOOSE j \in b[4]..(Len(text) + 1) :
                           /\ \A k \in b[4]..(j - 1) : text[k] \in b[2]
                           /\ j = Len(text) + 1 \/ text[j] \notin b[2],
                       LAMBDA end : IF end = b[4] THEN 0 ELSE MatchAt(b[3], text, end))
            ELSE IF IsWordAt(text, b[4] - 1) # IsWordAt(text, b[4])
              THEN MatchAt(b[3], text, b[4])
              ELSE 0))

\* the matches of re in text from index i on, counted from left to right
\* without overlap
RECURSIVE CountFrom(_, _, _)
CountFrom(re, text, i0) ==
    Let(i0, LAMBDA i :
        IF i > Len(text) THEN 0
        ELSE Let(MatchAt(re, text, i), LAMBDA end :
                 IF end = 0 THEN CountFrom(re, text, i + 1)
                 ELSE 1 + CountFrom(re, text, end)))

\* the characters a match of re can start with
FirstChars(re) ==
    LET first == IF re[1][1] = "b" THEN re[2] ELSE re[1]
    IN  IF first[1] = "lit" THEN {first[2][1]} ELSE first[2]

\* len(re.findall(re, text)); where at most one match starts, that is the count
findall(re0, text0) ==
    Let(<< re0, text0, FirstChars(re0) >>, LAMBDA a :
        Let({ i \in DOMAIN a[2] : a[2][i] \in a[3] /\ MatchAt(a[1], a[2], i) # 0 },
            LAMBDA starts :
                IF Cardinality(starts) <= 1 THEN Cardinality(starts)
                ELSE CountFrom(a[1], a[2], 1)))

\* re.search(re, text) is not None
search(re0, text0) ==
    \E re \in {re0}, text \in {text0} : \E i \in DOMAIN text : MatchAt(re, text, i) # 0

\* the categories that get a score, in the order of category_keywords
ScoredCategories ==
    << "fiscal", "laboral", "municipal", "autonomico", "comercial", "societario" >>

CategoryName ==
    [fiscal |-> <<"f","i","s","c","a","l">>, laboral |-> <<"l","a","b","o","r","a","l">>, municipal |-> <<"m","u","n","i","c","i","p","a","l">>,
     autonomico |-> <<"a","u","t","o","n","o","m","i","c","o">>, comercial |-> <<"c","o","m","e","r","c","i","a","l">>,
     societario |-> <<"s","o","c","i","e","t","a","r","i","o">>]

\* self.category_keywords: category -> weight -> keywords
category_keywords ==
    [fiscal |->
       << << <<"c","a","n","o","n">>, <<"t","a","s","a"," ","m","u","n","i","c","i","p","a","l">>, <<"p","r","e","c","i","o"," ","p","u","b","l","i","c","o">>, <<"t","r","i","b","u","t","o">>, <<"i","n","g","r","e","s","o">> >>,
          << <<"r","e","c","a","r","g","o">>, <<"b","o","n","i","f","i","c","a","c","i","o","n">>, <<"e","x","e","n","c","i","o","n">>, <<"c","o","n","t","r","i","b","u","c","i","o","n">>, <<"g","r","a","v","a","m","e","n">>,
             <<"c","u","o","t","a">>, <<"b","a","s","e"," ","i","m","p","o","n","i","b","l","e">>, <<"d","e","d","u","c","c","i","o","n">>, <<"r","e","t","e","n","c","i","o","n">> >>,
          << <<"i","m","p","u","e","s","t","o">>, <<"i","g","i","c">>, <<"i","r","p","f">>, <<"i","v","a">>, <<"t","r","i","b","u","t","a","r","i","o">>, <<"f","i","s","c","a","l">>,
             <<"h","a","c","i","e","n","d","a">>, <<"m","o","d","e","l","o">>, <<"d","e","c","l","a","r","a","c","i","o","n">>, <<"l","i","q","u","i","d","a","c","i","o","n">>, <<"a","e","a","t">>,
             <<"a","g","e","n","c","i","a"," ","t","r","i","b","u","t","a","r","i","a">> >> >>,
     laboral |->
       << << <<"f","o","r","m","a","c","i","o","n">>, <<"c","u","a","l","i","f","i","c","a","c","i","o","n">>, <<"c","o","m","p","e","t","e","n","c","i","a"," ","p","r","o","f","e","s","i","o","n","a","l">>,
             <<"r","i","e","s","g","o"," ","l","a","b","o","r","a","l">> >>,
          << <<"p","r","e","s","t","a","c","i","o","n">>, <<"d","e","s","e","m","p","l","e","o">>, <<"c","o","n","v","e","n","i","o">>, <<"l","a","b","o","r","a","l">>, <<"t","r","a","b","a","j","a","d","o","r">>,
             <<"m","u","t","u","a">>, <<"a","c","c","i","d","e","n","t","e"," ","l","a","b","o","r","a","l">>, <<"i","n","c","a","p","a","c","i","d","a","d">>, <<"j","u","b","i","l","a","c","i","o","n">> >>,
          << <<"t","r","a","b","a","j","o">>, <<"e","m","p","l","e","o">>, <<"c","o","n","t","r","a","t","o">>, <<"n","o","m","i","n","a">>, <<"s","e","g","u","r","i","d","a","d"," ","s","o","c","i","a","l">>,
             <<"a","u","t","o","n","o","m","o">>, <<"c","o","t","i","z","a","c","i","o","n">>, <<"a","f","i","l","i","a","c","i","o","n">>, <<"s","e","p","e">> >> >>,
     municipal |->
       << << <<"r","e","g","i","s","t","r","o">>, <<"c","e","n","s","o">>, <<"p","a","d","r","o","n">>, <<"e","m","p","a","d","r","o","n","a","m","i","e","n","t","o">>,
             <<"c","e","r","t","i","f","i","c","a","d","o"," ","m","u","n","i","c","i","p","a","l">> >>,
          << <<"t","a","s","a">>, <<"c","a","n","o","n">>, <<"o","c","u","p","a","c","i","o","n"," ","v","i","a"," ","p","u","b","l","i","c","a">>, <<"t","e","r","r","a","z","a">>,
             <<"v","a","l","l","a"," ","p","u","b","l","i","c","i","t","a","r","i","a">>, <<"m","e","r","c","a","d","i","l","l","o">>, <<"f","e","r","i","a">>, <<"e","s","p","e","c","t","a","c","u","l","o">> >>,
          << <<"l","i","c","e","n","c","i","a">>, <<"m","u","n","i","c","i","p","a","l">>, <<"a","y","u","n","t","a","m","i","e","n","t","o">>, <<"o","r","d","e","n","a","n","z","a">>, <<"a","c","t","i","v","i","d","a","d">>,
             <<"a","p","e","r","t","u","r","a">>, <<"o","b","r","a","s">>, <<"u","r","b","a","n","i","s","m","o">>, <<"c","a","b","i","l","d","o">> >> >>,
     autonomico |->
       << << <<"t","u","r","i","s","m","o">>, <<"a","g","r","i","c","u","l","t","u","r","a">>, <<"p","e","s","c","a">>, <<"e","n","e","r","g","i","a"," ","r","e","n","o","v","a","b","l","e">>,
             <<"m","e","d","i","o"," ","a","m","b","i","e","n","t","e">> >>,
          << <<"f","o","n","d","o">>, <<"d","e","s","a","r","r","o","l","l","o">>, <<"c","o","m","p","e","t","i","t","i","v","i","d","a","d">>, <<"i","n","n","o","v","a","c","i","o","n">>, <<"i","+","d","+","i">>,
             <<"i","n","t","e","r","n","a","c","i","o","n","a","l","i","z","a","c","i","o","n">>, <<"e","x","p","o","r","t","a","c","i","o","n">>, <<"z","o","n","a"," ","e","s","p","e","c","i","a","l"," ","c","a","n","a","r","i","a">> >>,
          << <<"c","a","n","a","r","i","a","s">>, <<"g","o","b","i","e","r","n","o">>, <<"c","o","n","s","e","j","e","r","i","a">>, <<"d","e","c","r","e","t","o">>, <<"l","e","y"," ","c","a","n","a","r","i","a">>,
             <<"s","u","b","v","e","n","c","i","o","n">>, <<"a","y","u","d","a">>, <<"p","r","o","g","r","a","m","a">>, <<"p","l","a","n">> >> >>,
     comercial |->
       << << <<"f","e","r","i","a"," ","c","o","m","e","r","c","i","a","l">>, <<"m","i","s","i","o","n"," ","c","o","m","e","r","c","i","a","l">>, <<"p","r","o","m","o","c","i","o","n">>, <<"m","a","r","k","e","t","i","n","g">> >>,
          << <<"c","e","r","t","i","f","i","c","a","d","o"," ","o","r","i","g","e","n">>, <<"d","o","c","u","m","e","n","t","o"," ","c","o","m","e","r","c","i","a","l">>, <<"f","a","c","t","u","r","a"," ","c","o","m","e","r","c","i","a","l">>,
             <<"c","r","e","d","i","t","o"," ","d","o","c","u","m","e","n","t","a","r","i","o">>, <<"i","n","c","o","t","e","r","m","s">> >>,
          << <<"c","o","m","e","r","c","i","o">>, <<"c","a","m","a","r","a"," ","c","o","m","e","r","c","i","o">>, <<"e","x","p","o","r","t","a","c","i","o","n">>, <<"i","m","p","o","r","t","a","c","i","o","n">>,
             <<"c","o","m","e","r","c","i","o"," ","e","x","t","e","r","i","o","r">>, <<"a","r","a","n","c","e","l">>, <<"m","e","r","c","a","d","o">> >> >>,
     societario |->
       << << <<"m","a","r","c","a">>, <<"p","a","t","e","n","t","e">>, <<"p","r","o","p","i","e","d","a","d"," ","i","n","d","u","s","t","r","i","a","l">>, <<"d","e","n","o","m","i","n","a","c","i","o","n"," ","s","o","c","i","a","l">> >>,
          << <<"f","u","s","i","o","n">>, <<"e","s","c","i","s","i","o","n">>, <<"t","r","a","n","s","f","o","r","m","a","c","i","o","n">>, <<"d","i","s","o","l","u","c","i","o","n">>, <<"c","o","n","c","u","r","s","o">>,
             <<"j","u","n","t","a"," ","g","e","n","e","r","a","l">>, <<"c","o","n","s","e","j","o"," ","a","d","m","i","n","i","s","t","r","a","c","i","o","n">> >>,
          << <<"s","o","c","i","e","d","a","d">>, <<"e","m","p","r","e","s","a">>, <<"c","o","n","s","t","i","t","u","c","i","o","n">>, <<"e","s","t","a","t","u","t","o","s">>, <<"c","a","p","i","t","a","l"," ","s","o","c","i","a","l">>,
             <<"r","e","g","i","s","t","r","o"," ","m","e","r","c","a","n","t","i","l">>, <<"a","d","m","i","n","i","s","t","r","a","d","o","r">> >> >>]

\* self.category_patterns
category_patterns ==
    [fiscal |->
       << << Lit(<<"m","o","d","e","l","o">>), Plus(SpaceChars), Plus(DigitChars) >>,
          << Lit(<<"i","g","i","c">>), Plus(SpaceChars), Lit(<<"g","e","n","e","r","a","l">>) >>,
          << Lit(<<"i","r","p","f">>), Plus(SpaceChars), Plus(DigitChars) >>,
          << Lit(<<"i","v","a">>), Plus(SpaceChars), Lit(<<"t","r","i","m","e","s","t","r","a","l">>) >>,
          << Lit(<<"d","e","c","l","a","r","a","c","i","o","n">>), Plus(SpaceChars), Lit(<<"a","n","u","a","l">>) >> >>,
     laboral |->
       << << Lit(<<"c","o","n","t","r","a","t","o">>), Plus(SpaceChars), Plus(WordChars) >>,
          << Lit(<<"n","o","m","i","n","a">>), Plus(SpaceChars), Plus(DigitChars) >>,
          << Lit(<<"c","o","n","v","e","n","i","o">>), Plus(SpaceChars), Lit(<<"c","o","l","e","c","t","i","v","o">>) >>,
          << Lit(<<"s","e","g","u","r","i","d","a","d">>), Plus(SpaceChars), Lit(<<"s","o","c","i","a","l">>) >>,
          << Lit(<<"c","o","t","i","z","a","c","i","o","n">>), Plus(SpaceChars), Plus(DigitChars) >> >>,
     municipal |->
       << << Lit(<<"l","i","c","e","n","c","i","a">>), Plus(SpaceChars), Plus(WordChars) >>,
          << Lit(<<"o","r","d","e","n","a","n","z","a">>), Plus(SpaceChars), Plus(DigitChars) >>,
          << Lit(<<"t","a","s","a">>), Plus(SpaceChars), Lit(<<"m","u","n","i","c","i","p","a","l">>) >>,
          << Lit(<<"o","b","r","a">>), Plus(SpaceChars), Lit(<<"m","a","y","o","r">>) >>,
          << Lit(<<"a","c","t","i","v","i","d","a","d">>), Plus(SpaceChars), Lit(<<"c","o","m","e","r","c","i","a","l">>) >> >>,
     autonomico |->
       << << Lit(<<"d","e","c","r","e","t","o">>), Plus(SpaceChars), Plus(DigitChars) >>,
          << Lit(<<"l","e","y">>), Plus(SpaceChars), Plus(DigitChars), Lit(<<"/">>),
             Plus(DigitChars) >>,
          << Lit(<<"s","u","b","v","e","n","c","i","o","n">>), Plus(SpaceChars), Plus(DigitChars) >>,
          << Lit(<<"p","l","a","n">>), Plus(SpaceChars), Plus(WordChars) >>,
          << Lit(<<"p","r","o","g","r","a","m","a">>), Plus(SpaceChars), Plus(WordChars) >> >>]

\* self.institution_categories
institution_categories ==
    << << <<"h","a","c","i","e","n","d","a">>, {"fiscal"} >>, << <<"s","e","g","u","r","i","d","a","d","_","s","o","c","i","a","l">>, {"laboral"} >>,
       << <<"s","e","p","e">>, {"laboral"} >>, << <<"a","y","u","n","t","a","m","i","e","n","t","o">>, {"municipal"} >>,
       << <<"a","y","t","o">>, {"municipal"} >>, << <<"c","a","b","i","l","d","o">>, {"municipal", "autonomico"} >>,
       << <<"g","o","b","c","a","n">>, {"autonomico"} >>, << <<"g","o","b","i","e","r","n","o">>, {"autonomico"} >>,
       << <<"c","a","m","a","r","a">>, {"comercial", "societario"} >> >>

\* Scores are counted in halves: the bonus 1.5 is 3, the weight 1 is 2.

\* 1. the keywords of one category, with their weights
KeywordScore(category, text) ==
    SumOf([weight \in 1..3 |->
        SumOf([k \in DOMAIN category_keywords[category][weight] |->
            2 * weight * findall(<< WordBoundary,
                                    Lit(category_keywords[category][weight][k]),
                                    WordBoundary >>, text)])])

\* 2. the patterns of one category
PatternScore(category, text) ==
    IF category \notin DOMAIN category_patterns THEN 0
    ELSE SumOf([p \in DOMAIN category_patterns[category] |->
                   2 * 2 * findall(category_patterns[category][p], text)])

\* 3. the bonus of the institution
InstitutionScore(category, institution) ==
    IF institution = <<>> THEN 0
    ELSE SumOf([k \in DOMAIN institution_categories |->
                   IF /\ Contains(Lower(institution), institution_categories[k][1])
                      /\ category \in institution_categories[k][2]
                     THEN 3 ELSE 0])

\* 4. the bonus of the URL
UrlScore(category, url) ==
    IF url # <<>> /\ Contains(Lower(url), CategoryName[category]) THEN 2 ELSE 0

\* DocumentCategorizer._calculate_category_scores
_calculate_category_scores(text, institution, url) ==
    [category \in Range(ScoredCategories) |->
        KeywordScore(category, text) + PatternScore(category, text)
          + InstitutionScore(category, institution) + UrlScore(category, url)]

\* any(term in text for term in terms)
AnyTerm(terms, text) == \E term \in terms : Contains(text, term)

\* DocumentCategorizer._apply_heuristics
_apply_heuristics(scores, title, content, institution) ==
  Let(Lower(title), LAMBDA title_lower :
    LET fiscal     == IF search(<< Lit(<<"m","o","d","e","l","o">>), Plus(SpaceChars), Plus(DigitChars) >>,
                                title_lower)
                        THEN 6 ELSE 0
        laboral    == IF AnyTerm({ <<"c","o","n","t","r","a","t","o">>, <<"e","m","p","l","e","o">>, <<"t","r","a","b","a","j","o">> }, title_lower)
                        THEN 4 ELSE 0
        municipal  == IF /\ AnyTerm({ <<"l","i","c","e","n","c","i","a">>, <<"p","e","r","m","i","s","o">>, <<"a","u","t","o","r","i","z","a","c","i","o","n">> },
                                    title_lower)
                         /\ \/ Contains(title_lower, <<"m","u","n","i","c","i","p","a","l">>)
                            \/ Contains(Lower(institution), <<"a","y","u","n","t","a","m","i","e","n","t","o">>)
                        THEN 4 ELSE 0
        autonomico == IF AnyTerm({ <<"s","u","b","v","e","n","c","i","o","n">>, <<"a","y","u","d","a">>, <<"b","e","c","a">> }, title_lower)
                        THEN 4 ELSE 0
        commercial == IF AnyTerm({ <<"e","x","p","o","r","t","a","c","i","o","n">>, <<"c","o","m","e","r","c","i","o">>, <<"c","a","m","a","r","a">>, <<"e","m","p","r","e","s","a">>,
                                   <<"s","o","c","i","e","d","a","d">> }, title_lower)
                        THEN 3 ELSE 0
    IN  [scores EXCEPT !["fiscal"]     = @ + fiscal,
                       !["laboral"]    = @ + laboral,
                       !["municipal"]  = @ + municipal,
                       !["autonomico"] = @ + autonomico,
                       !["comercial"]  = @ + commercial,
                       !["societario"] = @ + commercial])

category_priorities ==
    [fiscal |-> 1, laboral |-> 2, municipal |-> 3, autonomico |-> 4, comercial |-> 5,
     societario |-> 6, general |-> 7]

\* min(tied_categories, key=...) with the order of the priorities reversed
_resolve_tie_last(tied_categories, scores) ==
    CHOOSE best \in tied_categories :
        \A other \in tied_categories :
            category_priorities[best] >= category_priorities[other]

\* DocumentCategorizer._resolve_tie
_resolve_tie(tied_categories, scores) ==
    CHOOSE best \in tied_categories :
        \A other \in tied_categories :
            category_priorities[best] <= category_priorities[other]

\* max(scores.values())
MaxScore(scores) ==
    CHOOSE max_score \in { scores[c] : c \in DOMAIN scores } :
        \A c \in DOMAIN scores : scores[c] <= max_score

\* DocumentCategorizer._select_best_category
_select_best_category(scores0) ==
    Let(scores0, LAMBDA scores :
        IF DOMAIN scores = {} \/ MaxScore(scores) = 0 THEN "general"
        ELSE Let({ c \in DOMAIN scores : scores[c] = MaxScore(scores) },
                 LAMBDA top_categories :
                     IF Cardinality(top_categories) > 1
                       THEN _resolve_tie(top_categories, scores)
                       ELSE CHOOSE c \in top_categories : TRUE))

\* full_text = f"{title} {content}".lower().strip()
FullText(title, content) == Strip(Lower(title \o <<" ">> \o content))

\* category_scores of categorize, after the heuristics
category_scores(title, content, institution, url) ==
    Let(FullText(title, content), LAMBDA full_text :
        _apply_heuristics(_calculate_category_scores(full_text, institution, url),
                          title, content, institution))

\* DocumentCategorizer.categorize
categorize(title, content, institution, url) ==
    IF Len(FullText(title, content)) < 3 THEN "general"
    ELSE _select_best_category(category_scores(title, content, institution, url))

----------------------------------------------------------------------------
(* Functions called on their own *)

\* the URLs _normalize_url is called with
NormalizeInputs ==
    { <<"h","t","t","p",":","/","/","h","/","a">>, <<"h","t","t","p",":","/","/","h","/","a","/">>, <<"h","t","t","p",":","/","/","h","/","/","a">>, <<"h","t","t","p",":","/","/","h","/","/","a","/","/">>,
      <<"h","t","t","p",":","/","/","h","/","a","?","q","=","1">>, <<"h","t","t","p",":","/","/","h","/","a","/","?","q","=","1">>, <<"h","t","t","p",":","/","/","h","/","a","?","q","=","b","/">>,
      <<"h","t","t","p",":","/","/","h","/","a","#","f">>, <<"h","t","t","p",":","/","/","h","/","a","/","#","f">>, <<"h","t","t","p",":","/","/","h","/","a","#","f","/">>,
      <<"h","t","t","p",":","/","/","h","/","b">>, <<"h","/","a">>, <<"h","t","t","p",":","/","/","h","/","a","/","?">>, <<"h","t","t","p",":","/","/","h","/","a","/","#">> }

\* _normalize_url(url), evaluated once per URL
NormalizedInput == [url \in NormalizeInputs |-> _normalize_url(url)]

\* urlparse of the URLs given to _normalize_url and of those it returns
ParsedUrl ==
    [url \in NormalizeInputs \cup { NormalizedInput[u] : u \in NormalizeInputs } |->
        urlparse(url)]

\* one call of a function of the pipeline in a process that has made none
PureCall(record) ==
    /\ calls = 0
    /\ calls' = 1
    /\ call' = record
    /\ UNCHANGED << files, dirs, metadata_file, failed_file, phase, ENABLE_DEDUPLICATION,
                    ENABLE_DOWNLOAD, downloaded_hashes, failed_downloads,
                    scraped_documents, runs, streamed, ever_failed >>
    /\ UNCHANGED fetchVars
    /\ UNCHANGED runVars

\* scraper._normalize_url(u1) and scraper._normalize_url(u2)
NormalizeUrls(u1, u2) ==
    PureCall([op |-> "_normalize_url", urls |-> <<u1, u2>>,
              ret |-> <<NormalizedInput[u1], NormalizedInput[u2]>>])

\* _normalize_url of a URL that _normalize_url returned, evaluated once per URL
NormalizedTwice == [url \in NormalizeInputs |-> _normalize_url(NormalizedInput[url])]

\* _resolve_url(href) returns _normalize_url(href); _make_request and
\* _deduplicate_documents call _normalize_url on that URL again
NormalizeTwice(url) ==
    PureCall([op |-> "_normalize_url twice", url |-> url,
              ret |-> <<NormalizedInput[url], NormalizedTwice[url]>>])

\* the candidates a scraper hands to _process_document
Candidates ==
    { [download_url |-> url, title |-> title] :
        url \in {URL_A, <<"h","t","t","p",":","/","/","h","/","a",".","p","d","f","/">>, <<"h","t","t","p",":","/","/","h","/","/","a",".","p","d","f">>, URL_B},
        title \in {TITLE_MODELO, <<"G","u","i","a">>} }

\* _normalize_url of the URL of a candidate
CandidateCanonical ==
    [url \in { c.download_url : c \in Candidates } |-> _normalize_url(url)]

\* the document_id _process_document gives to a candidate
DocumentId ==
    [c \in Candidates |-> generate_hash(c.download_url, <<>>)]

\* _process_document(c1) and _process_document(c2), up to the document_id
GenerateHashes(c1, c2) ==
    PureCall([op |-> "generate_hash", candidates |-> <<c1, c2>>,
              ret |-> <<DocumentId[c1], DocumentId[c2]>>])

\* the resolved URLs _is_valid_document_url is called with
DocumentUrlInputs ==
    { <<"h","t","t","p","s",":","/","/","g",".","o","r","g","/","a",".","p","d","f">>, <<"h","t","t","p","s",":","/","/","g",".","o","r","g","/","A",".","P","D","F">>, <<"h","t","t","p","s",":","/","/","g",".","o","r","g","/","a",".","p","d","f","?","v","=","1">>,
      <<"h","t","t","p","s",":","/","/","g",".","o","r","g","/","p",".","h","t","m","l">>, <<"h","t","t","p","s",":","/","/","g",".","o","r","g","/","p">>, <<"h","t","t","p","s",":","/","/","g",".","o","r","g","/","a",".","p","d","f",".","h","t","m","l">>,
      <<"h","t","t","p","s",":","/","/","x",".","d","o","c","s",".","o","r","g","/","p",".","h","t","m","l">>, <<"h","t","t","p","s",":","/","/","g",".","o","r","g","/","g","u","i","a",".","h","t","m","l">>,
      <<"h","t","t","p","s",":","/","/","g",".","o","r","g","/","p",".","h","t","m","l","?","f","i","l","e","=","1">>, <<"h","t","t","p","s",":","/","/","g",".","o","r","g","/","g","e","t","?","d","o","c","u","m","e","n","t","=","3">> }

IsValidDocumentUrl(url) ==
    PureCall([op |-> "_is_valid_document_url", url |-> url,
              ret |-> _is_valid_document_url(url)])

\* the <a> elements _extract_document_info is called with: NULL is an
\* attribute the element does not have
Links ==
    { [href |-> href, text |-> text, title |-> title, aria_label |-> aria] :
        href  \in { <<"h","t","t","p","s",":","/","/","g",".","o","r","g","/","a",".","p","d","f">>, <<"h","t","t","p","s",":","/","/","g",".","o","r","g","/","d","o","c","s","/">>, <<"/","a",".","p","d","f">>,
                    <<"/","/","g",".","o","r","g","/","g","u","i","a","_","p","y","m","e","s",".","p","d","f">>, <<"h","t","t","p","s",":","/","/","g",".","o","r","g","/","p",".","h","t","m","l">>, <<>> },
        text  \in { <<>>, <<" "," ">>, <<" ","M","o","d","e","l","o"," "," ","0","3","0"," ">> },
        title \in { NULL, <<>>, <<"G","u","i","a">> },
        aria  \in { NULL, <<"A","y","u","d","a">> } }

DocInfo == [link \in Links |-> _extract_document_info(link, PAGE)]

ExtractDocumentInfo(link) ==
    PureCall([op |-> "_extract_document_info", link |-> link, ret |-> DocInfo[link]])

\* what categorize is called with
CategorizeInputs ==
    { [title |-> title, content |-> <<>>, institution |-> institution, url |-> <<>>] :
        title       \in { <<>>, <<"a","b">>, <<"G","u","i","a">>, <<"M","o","d","e","l","o"," ","0","3","0">>, <<"I","V","A"," ","n","o","m","i","n","a">>,
                          <<"L","i","c","e","n","c","i","a"," ","m","u","n","i","c","i","p","a","l">>, <<"A","y","u","d","a"," ","e","x","p","o","r","t","a","c","i","o","n">> },
        institution \in { <<>>, <<"h","a","c","i","e","n","d","a","_","c","a","n","a","r","i","a","s">>, <<"c","a","m","a","r","a","_","c","o","m","e","r","c","i","o">> } }
    \cup
    { [title |-> title, content |-> <<"c","o","n","t","r","a","t","o"," ","t","e","m","p","o","r","a","l">>, institution |-> <<>>,
       url |-> url] :
        title \in { <<>>, <<"G","u","i","a">> },
        url   \in { <<>>, <<"h","t","t","p","s",":","/","/","g",".","o","r","g","/","l","a","b","o","r","a","l","/","a",".","p","d","f">> } }
    \cup
    { [title |-> <<"a","b">>, content |-> <<>>, institution |-> <<>>,
       url |-> <<"h","t","t","p","s",":","/","/","g",".","o","r","g","/","l","a","b","o","r","a","l","/","a",".","p","d","f">>] }

\* the scores of the categories for an input
Scores ==
    [i \in CategorizeInputs |-> category_scores(i.title, i.content, i.institution, i.url)]

Categorized ==
    [i \in CategorizeInputs |-> categorize(i.title, i.content, i.institution, i.url)]

Categorize(input) ==
    PureCall([op |-> "categorize", input |-> input, ret |-> Categorized[input]])

NextPure ==
    \/ \E url \in NormalizeInputs : NormalizeTwice(url)
    \/ \E url \in DocumentUrlInputs : IsValidDocumentUrl(url)
    \/ \E link \in Links : ExtractDocumentInfo(link)
    \/ \E input \in CategorizeInputs : Categorize(input)
    \/ \E c1 \in Candidates, c2 \in Candidates : GenerateHashes(c1, c2)
    \/ \E u1 \in NormalizeInputs, u2 \in NormalizeInputs : NormalizeUrls(u1, u2)

\* The functions of the pipeline, each called once on its inputs
SpecPure == InitFM /\ [][NextPure]_vars

----------------------------------------------------------------------------
(* CanariasPYMEScraper.run_scraping *)

\* ScrapingConfig.TARGET_SOURCES, in the order of the dictionary: the
\* institutions of the model and their priority
TARGET_SOURCES ==
    << [name |-> "hacienda_canarias", priority |-> 1],
       [name |-> "gobcan", priority |-> 2] >>

\* sorted(all_institutions, key=priority): the sort is stable
SortedByPriority ==
    LET n == Len(TARGET_SOURCES)
        order == CHOOSE f \in [1..n -> 1..n] :
                    \A i \in 1..n, j \in 1..n :
                        i < j => \/ TARGET_SOURCES[f[i]].priority < TARGET_SOURCES[f[j]].priority
                                 \/ /\ TARGET_SOURCES[f[i]].priority = TARGET_SOURCES[f[j]].priority
                                    /\ f[i] < f[j]
    IN  [i \in 1..n |-> TARGET_SOURCES[order[i]].name]

IsTargetSource(inst) == \E i \in DOMAIN TARGET_SOURCES : TARGET_SOURCES[i].name = inst

\* CanariasPYMEScraper._get_target_institutions
_get_target_institutions(institutions) ==
    IF institutions # NULL /\ institutions # <<>>
      THEN SelectSeq(institutions, IsTargetSource)
      ELSE SortedByPriority

\* the institutions run_scraping is called with: NULL is None
InstitutionLists ==
    { NULL, << "gobcan", "hacienda_canarias" >>, << "cabildo_lanzarote", "gobcan" >>,
      << "hacienda_canarias" >> }

\* the dictionaries BaseScraper._extract_document_info builds from the links of a
\* page: those of the links it does not reject
ExtractedDocuments == { DocInfo[link] : link \in Links } \ { NoDocInfo }

\* the documents scrape_documents returns
DocumentLists ==
    { <<>> } \cup { << doc_data >> : doc_data \in Docs \cup ExtractedDocuments }

\* run_scraping up to its loop
RunScraping(institutions) ==
    /\ phase = "running"
    /\ run.state = "none"
    /\ run' = [run EXCEPT !.state = "looping",
                          !.target_institutions = _get_target_institutions(institutions),
                          !.index = 1]
    /\ UNCHANGED << stats, institution_log >>
    /\ UNCHANGED dlVars
    /\ UNCHANGED fetchVars

\* run_scraping: the exception of _process_institution leaves run_scraping
Caught_raised_again(r) == [r EXCEPT !.state = "raised"]

\* run_scraping: except Exception ... continue
Caught(r) == [r EXCEPT !.index = @ + 1]

\* One iteration of the loop of run_scraping, up to the loop of
\* _process_institution: create_scraper and scrape_documents.  raises: the
\* constructor of the scraper, and so create_scraper, raises.
ProcessInstitution(raises, documents, answer, ua) ==
    /\ run.state = "looping"
    /\ run.index <= Len(run.target_institutions)
    /\ LET institution == run.target_institutions[run.index]
       IN  IF raises
             THEN /\ LET counted == [stats EXCEPT !.errors = @ + 1]
                     IN  stats' = [counted EXCEPT !.errors = @ + 1]
                  /\ run' = Caught(run)
                  /\ institution_log' =
                        Append(institution_log,
                               [institution |-> institution, raised |-> TRUE])
                  /\ UNCHANGED fetchVars
             ELSE /\ create_scraper(institution, answer, ua)
                  /\ stats' = [stats EXCEPT !.documents_found = @ + Len(documents)]
                  /\ run' = [run EXCEPT !.state = "documents", !.documents = documents]
                  /\ institution_log' =
                        Append(institution_log,
                               [institution |-> institution, raised |-> FALSE])
    /\ UNCHANGED dlVars

\* _process_institution: one iteration of its loop
ProcessNextDocument(category, head, resp) ==
    /\ run.state = "documents"
    /\ run.documents # <<>>
    /\ _process_document(Head(run.documents), category, head, resp)
    /\ run' = [run EXCEPT !.documents = Tail(@)]
    /\ UNCHANGED institution_log
    /\ UNCHANGED fetchVars

\* _process_institution after its loop, and the end of the iteration of
\* run_scraping
EndInstitution ==
    /\ run.state = "documents"
    /\ run.documents = <<>>
    /\ stats' = [stats EXCEPT !.institutions_processed = @ + 1]
    /\ run' = [run EXCEPT !.state = "looping", !.index = @ + 1]
    /\ UNCHANGED institution_log
    /\ UNCHANGED dlVars
    /\ UNCHANGED fetchVars

\* run_scraping after its loop: results = self._finalize_scraping(); statistics
\* is summary['statistics']
FinalizeRun ==
    /\ run.state = "looping"
    /\ run.index > Len(run.target_institutions)
    /\ _finalize_scraping
    /\ run' = [run EXCEPT !.state = "finalized", !.statistics = stats]
    /\ UNCHANGED institution_log
    /\ UNCHANGED fetchVars

NextRun ==
    \/ \E institutions \in InstitutionLists : RunScraping(institutions)
    \/ \E raises \in BOOLEAN, documents \in DocumentLists,
          answer \in {ROBOTS_404, ROBOTS_PRIVATE} :
          ProcessInstitution(raises, documents, answer, UA_MOZILLA)
    \/ \E category \in RunCategories, head \in HeadAnswers, resp \in RunResponses :
          ProcessNextDocument(category, head, resp)
    \/ EndInstitution
    \/ FinalizeRun

\* One process that calls run_scraping; it takes its steps one after another
SpecRun == InitFM /\ [][NextRun]_vars /\ WF_vars(NextRun)

----------------------------------------------------------------------------
(* Properties *)

\* the files whose name carries the hash prefix _generate_filename gives the
\* files of a document
FilesOf(doc_hash) ==
    { p \in DOMAIN files : Contains(p[2], Prefix(doc_hash, 8)) }

\* C1: across orchestrator runs over one output directory a document_id is
\* successfully downloaded at most once: once a run has written its file, no
\* later run streams that document again.
C1_DownloadedAtMostOnce == \A h \in DocHashes : streamed[h] <= 1

\* C2: ledger records are never deleted: every document_id that has a record
\* with a local_path in metadata.jsonl when a run starts (the file does not change
\* during the run) still has a record in it when the run has finished.
C2_LedgerRecordsKept ==
    [][(phase = "running" /\ phase' = "idle") =>
          \A h \in LoadedHashes :
              \E i \in DOMAIN metadata_file'.lines :
                  metadata_file'.lines[i].document_id = h]_vars

\* C3: every failure path of download_document leaves no partial file: when it
\* returns None after a failure, no file of that document is in the output
\* directory.
C3_NoPartialFile ==
    (call.op = "download_document" /\ call.outcome \in RecordsFailure) =>
        (call.ret = NULL /\ FilesOf(call.doc_hash) = {})

\* a 4xx status other than 429
ClientError(answer) ==
    answer.kind = "http_error" /\ answer.status \in 400..499 /\ answer.status # 429

BackoffWaits(r) == Cardinality({ i \in DOMAIN r.waits : r.waits[i].kind = "backoff" })

\* C4: a request answered by a 4xx status other than 429 is not retried: the
\* error is surfaced at once, and no backoff wait and no further attempt follow
\* that answer.
C4_ClientErrorNotRetried ==
    (req.state # "none" /\ ClientError(req.last)) =>
        (req.state = "raised" /\ BackoffWaits(req) = req.net - 1)

\* the requests the call r had issued before the step that leads to r'
NetBefore == IF req'.seq = req.seq THEN req.net ELSE 0

\* C5: within one orchestrator run, once a URL has been fetched, every later
\* fetch of a URL with the same canonical form, by the scraper of any
\* institution, makes no network call.
C5_FetchedOncePerRun ==
    [][(req' # req /\ req'.url \in fetched_urls) => req'.net = NetBefore]_vars

\* the rules cached for the scraper's robots.txt disallow url for its user agent
RulesDisallow(url) ==
    /\ current # "none"
    /\ RobotsUrl[current] \in DOMAIN robots_cache
    /\ ~robots_cache[RobotsUrl[current]].none
    /\ ~CanFetch[robots_cache[RobotsUrl[current]], user_agent, url]

\* C6: when the cached robots rules disallow a URL, an attempt of
\* _make_request for it, the first one or one the retry wrapper starts, issues
\* no HTTP request and makes the call return None.
C6_BlockedNeverRequested ==
    [][(req' # req /\ RulesDisallow(req'.url)) =>
          (req'.state = "returned" /\ req'.result # "response"
           /\ req'.net = NetBefore)]_vars

\* a call was blocked by robots.txt before any request
C6_Blocked == req.state = "returned" /\ req.result = "blocked" /\ req.net = 0

C8_CacheHitReturnsPath ==
    (/\ call.op = "download_document"
     /\ call.outcome = "cache_hit"
     /\ \E p \in FilesOf(call.doc_hash) : p[1] = call.category) =>
        (call.ret # NULL /\ call.ret \in FilesOf(call.doc_hash))

\* C9: a failed download is not retried: once download_document has recorded
\* a document_id as failed, every later call for it, in that run and in every
\* later run over the same output directory, returns None without a request.
C9_FailedNotRetried ==
    [][(call'.op = "download_document" /\ call'.doc_hash \in ever_failed) =>
          (call'.ret = NULL /\ call'.gets = 0 /\ call'.heads = 0)]_vars

\* C10: a download whose response declares application/pdf and whose body,
\* received in full, does not begin with %PDF- is rejected whatever the
\* extension of the URL's path: None is returned, no file of the document is
\* left and the document_id is in failed_downloads.
C10_FalsePdfRejected ==
    (/\ call.op = "download_document"
     /\ call.body # NULL
     /\ call.content_type = CT_PDF
     /\ call.outcome # "stream_error"
     /\ Prefix(call.body, 5) # <<"%","P","D","F","-">>) =>
        (/\ call.ret = NULL
         /\ FilesOf(call.doc_hash) = {}
         /\ call.doc_hash \in failed_downloads)

\* the response declares a Content-Length over the ceiling (lines 153-160)
DeclaredOver(resp) ==
    /\ resp.get = "ok"
    /\ _is_valid_content_type(Lower(resp.content_type))
    /\ resp.content_length # NULL
    /\ IsInt(resp.content_length)
    /\ ParseInt(resp.content_length) > max_size_bytes

\* the chunks written to the opened file come to exceed the ceiling (lines 176-187)
StreamedOver(c) ==
    /\ c.path # NULL
    /\ Len(c.resp.body) > max_size_bytes
    /\ ~StreamRaises(c.resp)

\* C11: the byte ceiling is hard. A download whose response declares a
\* Content-Length over the ceiling opens no file, and one whose written bytes come
\* to exceed the ceiling has its partial file deleted; in both cases
\* download_document returns None, no file of the document is on disk, and the
\* document_id is in failed_downloads and not in downloaded_hashes.
C11_ByteCeilingHard ==
    (/\ call.op = "download_document"
     /\ call.gets = 1
     /\ (DeclaredOver(call.resp) \/ StreamedOver(call))) =>
        /\ call.ret = NULL
        /\ DeclaredOver(call.resp) => call.path = NULL
        /\ FilesOf(call.doc_hash) = {}
        /\ call.doc_hash \in failed_downloads
        /\ call.doc_hash \notin downloaded_hashes

\* a download was aborted in mid-stream: the declared length passed and the
\* written bytes exceeded the ceiling
C11_Aborted ==
    /\ call.op = "download_document"
    /\ call.gets = 1
    /\ StreamedOver(call)
    /\ ~DeclaredOver(call.resp)

\* C12: when download_document returns the path of a successful download, both
\* ledgers are updated: downloaded_hashes contains the document_id and
\* metadata.jsonl holds a record of the document_id with that local_path.
C12_LedgersUpdatedAtReturn ==
    (call.op = "download_document" /\ call.outcome = "success") =>
        /\ call.doc_hash \in downloaded_hashes
        /\ metadata_file.exists
        /\ \E i \in DOMAIN metadata_file.lines :
              /\ metadata_file.lines[i].document_id = call.doc_hash
              /\ metadata_file.lines[i].local_path = call.ret

\* C13: a fetch that ends in permanent failure (the wrapper gave up and the
\* error reached the caller) marks the canonical URL as fetched, so that a later
\* fetch of it by the scraper returns without a network call.
C13_FailureMarksProcessed ==
    req.state = "raised" => req.url \in processed_urls

\* C14: a failure that will be retried never marks the URL as fetched: whenever
\* the retry wrapper is about to start another attempt of a call, the canonical
\* URL of the call is not in processed_urls.
C14_RetryNotMarked ==
    req.state = "running" => req.url \notin processed_urls

\* the wrapper is about to start the third attempt of a call, on a scraper that
\* has fetched another URL
C14_Retrying ==
    /\ req.state = "running"
    /\ req.attempt = 2
    /\ req.net = 2
    /\ processed_urls # {}

\* the requests without certificate verification the call had made before the step
UnverifiedBefore == IF req'.seq = req.seq THEN req.unverified ELSE 0

\* C15: an attempt whose request fails on certificate verification makes
\* exactly one more request, with verification disabled; when that request
\* succeeds its response is returned to the caller.
C15_SslFallback ==
    [][(req'.net > NetBefore /\ req'.last.kind = "ssl_error") =>
          /\ req'.unverified = UnverifiedBefore + 1
          /\ req'.net = NetBefore + 2
          /\ req'.state \in {"returned", "running", "raised"}]_vars

\* the seconds slept since the last request of a call
RECURSIVE SleptSince(_)
SleptSince(waits) ==
    IF waits = <<>> \/ waits[Len(waits)].kind = "request" THEN 0
    ELSE waits[Len(waits)].secs + SleptSince(SubSeq(waits, 1, Len(waits) - 1))

\* C16: after a request answered 429 the next request of the call starts only
\* when the rate-limit pause plus the backoff interval of the failed attempt
\* have been slept, and when that retry succeeds the call returns its response,
\* the one response of the call.
C16_RateLimitPause ==
    [][(/\ req.state = "running"
        /\ req.last = A_429
        /\ req'.net = req.net + 1) =>
          /\ SleptSince(req.waits) >= RATE_LIMIT_DELAY + wait_time(req.attempt - 1)
          /\ req'.last = A_OK =>
                (/\ req'.state = "returned"
                 /\ req'.result = "response"
                 /\ req'.url \in fetched_urls'
                 /\ req.result = "none")]_vars

\* a call whose first request was answered 429 and whose retry succeeded
C16_SucceededAfter429 ==
    /\ req.state = "returned"
    /\ req.result = "response"
    /\ req.net = 2
    /\ \E i \in DOMAIN req.waits : req.waits[i].kind = "rate_limit"

\* the seconds of the backoff waits of a call, in order
BackoffSecs(r) ==
    LET backoffs == SelectSeq(r.waits, LAMBDA w : w.kind = "backoff")
    IN  [i \in DOMAIN backoffs |-> backoffs[i].secs]

\* C17: a call that fails twice and then succeeds returns the response; the
\* wrapper waited delay * backoff^(k-1) before retry k, that is 1 and then 2,
\* 3 in all, and stayed within its max_retries retries.
C17_BackoffSchedule ==
    (req.result = "response" /\ req.net = 3) =>
        /\ req.state = "returned"
        /\ req.last = A_OK
        /\ BackoffSecs(req) = << delay, delay * backoff >>
        /\ BackoffSecs(req) = << 1, 2 >>
        /\ req.attempt <= max_retries

\* a call returned the response of its third request
C17_ThirdAttemptSucceeded ==
    /\ req.state = "returned"
    /\ req.result = "response"
    /\ req.net = 3
    /\ req.attempt = 2

\* C18: a call whose every attempt fails makes at most the configured number
\* of attempts (3) of network requests before the error reaches the caller.
C18_AttemptsBounded == req.net <= max_retries

\* C19: after a successful fetch the next request starts only when the delay
\* the configuration sets between requests has elapsed since the fetch.
C19_PolitenessGap ==
    [][(/\ req.state = "returned"
        /\ req.result = "response"
        /\ req'.seq = req.seq + 1
        /\ req'.net >= 1) =>
          SleptSince(req.waits) >= DELAY_BETWEEN_REQUESTS]_vars

\* the load of robots.txt failed: urlopen raised, or the server answered 5xx
LoadFailed(rp) == rp.none \/ (~rp.last_checked /\ ~rp.allow_all /\ ~rp.disallow_all)

\* C20: robots.txt is requested at most once per origin in a run, and an
\* origin whose robots.txt could not be loaded is cached as allow-all: every
\* URL may be fetched.
C20_RobotsOncePerOrigin ==
    /\ \A robots_url \in DOMAIN robots_reads : robots_reads[robots_url] <= 1
    /\ (/\ current # "none"
        /\ RESPECT_ROBOTS_TXT
        /\ RobotsUrl[current] \in DOMAIN robots_cache
        /\ LoadFailed(robots_cache[RobotsUrl[current]])) =>
           \A url \in CanonicalURLs : _can_fetch(url)

\* the robots.txt of the origin of a URL
OriginRobotsUrl == [url \in CanonicalURLs |-> urljoin(url, <<"/","r","o","b","o","t","s",".","t","x","t">>)]

\* C21: the robots rules consulted before a URL is fetched are those of the
\* URL's own origin: when a scraper that respects robots.txt has decided on a
\* URL, the robots.txt of that URL's origin has been loaded and is cached under
\* that origin.
C21_RulesOfOwnOrigin ==
    (/\ RESPECT_ROBOTS_TXT
     /\ req.state # "none"
     /\ req.result # "already_processed") =>
        OriginRobotsUrl[req.url] \in DOMAIN robots_cache

\* the path of a URL without its duplicated and trailing separators
BarePath(url) == RStripSlash(CollapseSlashes(ParsedUrl[url].path))

\* two URLs differ at most by a trailing slash on the path or by duplicated path
\* separators; query and fragment are the same in both
DifferBySlashes(u1, u2) ==
    /\ ParsedUrl[u1].scheme = ParsedUrl[u2].scheme
    /\ ParsedUrl[u1].netloc = ParsedUrl[u2].netloc
    /\ ParsedUrl[u1].query = ParsedUrl[u2].query
    /\ ParsedUrl[u1].fragment = ParsedUrl[u2].fragment
    /\ BarePath(u1) = BarePath(u2)

\* C22: two URLs that differ only by a trailing slash on the path or by
\* duplicated path separators, with the same query and fragment, have the same
\* canonical form.
C22_SlashesCanonicalized ==
    (call.op = "_normalize_url" /\ DifferBySlashes(call.urls[1], call.urls[2])) =>
        call.ret[1] = call.ret[2]

\* C23: _normalize_url preserves the query and the fragment: those of the
\* canonical form equal those of the input, also when they end in a slash.
C23_QueryFragmentPreserved ==
    call.op = "_normalize_url" =>
        /\ ParsedUrl[call.ret[1]].query = ParsedUrl[call.urls[1]].query
        /\ ParsedUrl[call.ret[1]].fragment = ParsedUrl[call.urls[1]].fragment

\* C24: two candidates whose URLs have the same canonical form and whose titles
\* are equal get the same document_id.
C24_SameCanonicalSameId ==
    (/\ call.op = "generate_hash"
     /\ CandidateCanonical[call.candidates[1].download_url]
          = CandidateCanonical[call.candidates[2].download_url]
     /\ call.candidates[1].title = call.candidates[2].title) =>
        call.ret[1] = call.ret[2]

\* C25: a resolved URL that ends in .html and contains no document keyword and
\* no document query pattern is never classified as a document candidate.
C25_HtmlNeverCandidate ==
    (/\ call.op = "_is_valid_document_url"
     /\ EndsWith(Lower(call.url), <<".","h","t","m","l">>)
     /\ ~AnyIn(doc_patterns, Lower(call.url))
     /\ ~AnyIn(url_params, Lower(call.url))) =>
        call.ret = FALSE

\* url.path.split('/')[-1]
LastPathSegment(url) ==
    Let(urlparse(url).path, LAMBDA path : From(path, RFind(path, "/")))

\* the non-empty values of the title and aria-label attributes of a link
AttributeTitles(link) ==
    { JoinSplit(link[name]) : name \in { n \in {"title", "aria_label"} : link[n] # NULL } }
        \ { <<>> }

\* C26: the title of a candidate is the link text; else the title or
\* aria-label attribute; else one derived from the last path segment of the
\* URL; the literal "Documento sin título" is used only when the link text,
\* both attributes and the last path segment are all empty
C26_TitleOrder ==
    (call.op = "_extract_document_info" /\ call.ret # NoDocInfo) =>
        LET link == call.link
            text == JoinSplit(link.text)
        IN  /\ text # <<>> => call.ret.title = text
            /\ (text = <<>> /\ AttributeTitles(link) # {}) =>
                   call.ret.title \in AttributeTitles(link)
            /\ call.ret.title = <<"D","o","c","u","m","e","n","t","o"," ","s","i","n"," ","t","í","t","u","l","o">> =>
                   /\ text = <<>>
                   /\ AttributeTitles(link) = {}
                   /\ LastPathSegment(call.ret.url) = <<>>

\* _select_best_category looked at the scores: the text has three characters
\* or more
Scored(input) == Len(FullText(input.title, input.content)) >= 3

\* the categories with the maximum score of an input
TopCategories(input) ==
    { c \in DOMAIN Scores[input] : Scores[input][c] = MaxScore(Scores[input]) }

\* C27: categorize returns a category with the maximum score, and "general"
\* exactly when no category scores above zero (keywords, patterns,
\* institution bonus, URL bonus, heuristics)
C27_MaximumOrGeneral ==
    call.op = "categorize" =>
        IF MaxScore(Scores[call.input]) > 0
          THEN call.ret \in TopCategories(call.input)
          ELSE call.ret = "general"

Visited == [i \in DOMAIN institution_log |-> institution_log[i].institution]

\* the calls of _process_institution that raised
RaisedCalls == { i \in DOMAIN institution_log : institution_log[i].raised }

\* C29: a failure while processing one institution does not abort the run:
\* run_scraping goes on to process every target institution, those after a
\* failing one included, and finalizes the run
C29_RunContinues ==
    (run.state = "looping") ~>
        (run.state = "finalized" /\ Visited = run.target_institutions)

\* a finalized run in which an institution was processed after one that failed
C29_ProcessedAfterFailure ==
    /\ run.state = "finalized"
    /\ \E i \in RaisedCalls, j \in DOMAIN institution_log :
          i < j /\ ~institution_log[j].raised

\* C30: after run_scraping, stats['errors'] is the number of institutions
\* whose processing raised, and institutions_processed plus that number is
\* the number of target institutions
C30_ErrorsCountedOnce ==
    run.state = "finalized" =>
        /\ run.statistics.errors = Cardinality(RaisedCalls)
        /\ run.statistics.institutions_processed + run.statistics.errors =
              Len(run.target_institutions)

\* ScrapingConfig.TARGET_SOURCES[inst]['priority']
Priority(inst) ==
    LET i == CHOOSE i \in DOMAIN TARGET_SOURCES : TARGET_SOURCES[i].name = inst
    IN  TARGET_SOURCES[i].priority

\* C31: in every run, with or without an explicit institution list, an
\* institution with a lower priority number is processed before any
\* institution with a higher priority number: the institutions
\* _process_institution was called for appear in ascending priority.
C31_PriorityOrder ==
    \A i \in DOMAIN institution_log, j \in DOMAIN institution_log :
        i < j => Priority(Visited[i]) <= Priority(Visited[j])

\* C32: a DocumentRecord is created once per unique document: the ledger
\* written at the end of a run holds at most one record per document_id,
\* also when the same document is discovered again in that run after a
\* failed or skipped download.
C32_OneRecordPerDocument ==
    \A i \in DOMAIN metadata_file.lines, j \in DOMAIN metadata_file.lines :
        metadata_file.lines[i].document_id = metadata_file.lines[j].document_id => i = j

\* C33: in dry-run mode no document is downloaded: when the run was started
\* with --dry-run, download_document is never called for any candidate and no
\* record gets a local_path.
C33_DryRunNoDownload ==
    (phase = "running" /\ ~ENABLE_DOWNLOAD) =>
        /\ call.op # "download_document"
        /\ \A i \in DOMAIN scraped_documents : scraped_documents[i].local_path = NULL

\* C34: _normalize_url is idempotent: for every URL u, also one that ends in
\* a slash followed by an empty '?' or '#', _normalize_url(_normalize_url(u))
\* equals _normalize_url(u).
C34_NormalizeIdempotent ==
    call.op = "_normalize_url twice" => call.ret[2] = call.ret[1]

HasUrlAndTitle(doc_data) ==
    /\ doc_data \in ExtractedDocuments
    /\ doc_data.url \notin {NULL, <<>>}
    /\ doc_data.title \notin {NULL, <<>>}

\* C36: every candidate the Candidate Extractor produces with a resolved URL
\* and a title reaches the Categorizer and the Download Manager: when
\* _process_institution hands such a document to _process_document, it is not
\* discarded as lacking a URL or title.
C36_CandidateProcessed ==
    [][ (/\ run.state = "documents"
         /\ run.documents # <<>>
         /\ run'.documents = Tail(run.documents)
         /\ HasUrlAndTitle(Head(run.documents))) =>
            ~(call'.op = "process_document" /\ call'.outcome = "no_url_or_title") ]_vars

\* C37: for a scraper that calls validate_config before scraping, the base
\* URL's page is still scanned for document candidates: after the
\* connectivity fetch of validate_config got its response, the request of the
\* main-page scrape for the same base URL does not return None as already
\* fetched.
C37_MainPageScanned ==
    (/\ current \in ValidatingScrapers
     /\ req.seq = 2
     /\ req.scraper = current
     /\ req.state = "returned"
     /\ BaseUrl[current] \in fetched_urls) =>
        req.result # "already_processed"

============================================================================
